---------------------------- MODULE Spec2Model ----------------------------
(***************************************************************************)
(* Market-data acquisition layer of the fintech web application:           *)
(*   services/finnhub_limiter.py        FinnhubRateLimiter (sliding window) *)
(*   services/alpha_vantage_limiter.py  AlphaVantageRateLimiter (5/min,    *)
(*                                      500/day, under a Lock)             *)
(*   services/cache_service.py          CacheService (Redis, JSON values)  *)
(*   services/finnhub_service.py        FinnhubService                     *)
(*   services/alpha_vantage_service.py  AlphaVantageService                *)
(*                                                                         *)
(* One module, several specifications over the same variables:             *)
(*   SpecFh    threads interleaving inside FinnhubRateLimiter.can_make_call *)
(*   SpecAv    threads interleaving on one AlphaVantageRateLimiter         *)
(*   SpecSeq   one caller at a time on either limiter                      *)
(*   SpecSvc   the provider services' handlers over cache and limiters     *)
(*   SpecCache the CacheService operations over the Redis store            *)
(*   SpecConc  threads inside get_quote of one provider service            *)
(*   SpecMkt   the market endpoints (indices, movers) over the cache       *)
(*   SpecTa    the indicators of TechnicalAnalysisService on one series    *)
(*   SpecBars  the conversion of historical payloads into bars             *)
(*   SpecAge   the get_quote handlers while fresh and stale entries age    *)
(*   SpecDeco  calls of a function wrapped with the cached decorator       *)
(* A specification leaves the variables of the other parts unchanged.      *)
(***************************************************************************)
EXTENDS Integers, Sequences, FiniteSets, TLC

VARIABLES
    now,                \* time.time(), in seconds
    today,              \* date.today(), as a day number
    \* ---- FinnhubRateLimiter
    call_timestamps,    \* deque of granted call times, oldest first
    total_calls,
    blocked_calls,
    fh_pc,              \* per thread: the line of can_make_call it is at
    fh_current_time,    \* per thread: local current_time
    fh_tmp,             \* per thread: the counter value loaded by a += statement
    fh_ret,             \* per thread: what its last call returned
    fh_started,         \* number of can_make_call calls started so far
    fh_granted,         \* history: the timestamps of all calls that were granted
    \* ---- AlphaVantageRateLimiter
    minute_tokens,
    daily_calls,
    last_minute_reset,
    last_day_reset,
    av_lock,            \* self.lock: the thread holding it, or NoThread
    av_pc,              \* per thread: where it is inside its limiter call
    av_op,              \* per thread: the method it is executing
    av_today,           \* per thread: local today of _reset_if_needed
    av_ret,             \* the value most recently returned by a limiter call
    av_started,         \* number of limiter calls started so far
    av_window_grants,   \* history: acquire grants since the last minute refill
    av_granted,         \* history: <<time, day>> of every granted acquire
    \* ---- one caller at a time on a limiter
    seq_subject,        \* the limiter the caller exercises
    seq_calls,          \* number of limiter calls made so far
    seq_ret,            \* the last call: [op, val]
    seq_denied,         \* number of can_make_call / acquire calls denied so far
    \* ---- CacheService over Redis
    store,              \* Redis: key -> [data, expires_at], live keys only
    client_ok,          \* self.redis_client is not None
    store_up,           \* Redis answers (a store operation does not raise)
    cache_flip,         \* flips at every CacheService call
    cache_ret,          \* the last CacheService call: [op, key, val, raised, caught]
    last_set,           \* history: the latest set call: [key, at, arg, ttl, usable]
    \* ---- FinnhubService / AlphaVantageService
    svc_subject,        \* the handlers the requests go to
    svc_flip,           \* flips at every handler call
    svc_ticks,          \* number of clock steps taken so far
    svc_ret,            \* the last handler call: [op, sym, val, raised, caught,
                        \*   granted, http, upstream, providers, status] and,
                        \*   as history, the keys whose live entry it replaced
    \* ---- concurrent get_quote requests to one provider service
    rq_subject,         \* the service the requests go to
    rq_pc,              \* per thread: where its get_quote request is
    rq_res,             \* per thread: [val, raised] of its current or last request
    rq_granted,         \* per thread: the limiter granted its current request
    rq_started,         \* number of requests started so far
    rq_http,            \* history: number of upstream calls performed so far
    \* ---- the market endpoints over StockDataService
    mk_flip,            \* flips at every call
    mk_ticks,           \* number of clock steps taken so far
    mk_ret,             \* the last call: [op, market, limit, changes, gainers,
                        \*   losers, val, status, fetched]
    \* ---- TechnicalAnalysisService
    ta_series,          \* the closing prices under analysis, newest last
    ta_ret,             \* the last call: [op, args, val, dict, trend, raised]
    \* ---- the conversion of a provider's historical payload into bars
    bar_payload,        \* the days of the payload's entries, in payload order
    bar_ret,            \* the last conversion: [op, days, val]
    \* ---- a function wrapped with the cached decorator
    dc_calls,           \* number of calls of the wrapper so far
    dc_invoked,         \* history: number of invocations of the wrapped function
    dc_seen,            \* history: per argument list, its latest invocation [at, val]
    dc_ret              \* the last call of the wrapper: [op, args, key, val]

fhVars == <<call_timestamps, total_calls, blocked_calls, fh_pc, fh_current_time,
            fh_tmp, fh_ret, fh_started, fh_granted>>
avVars == <<minute_tokens, daily_calls, last_minute_reset, last_day_reset, av_lock,
            av_pc, av_op, av_today, av_ret, av_started, av_window_grants>>
seqVars == <<seq_subject, seq_calls, seq_ret, seq_denied, av_granted>>
cacheVars == <<store, client_ok, store_up, cache_flip, cache_ret, last_set>>
clockVars == <<now, today>>
svcVars == <<svc_subject, svc_flip, svc_ticks, svc_ret>>
concVars == <<rq_subject, rq_pc, rq_res, rq_granted, rq_started, rq_http>>
mktVars == <<mk_flip, mk_ticks, mk_ret>>
taVars == <<ta_series, ta_ret>>
barVars == <<bar_payload, bar_ret>>
decoVars == <<dc_calls, dc_invoked, dc_seen, dc_ret>>
extVars == <<mktVars, taVars, barVars, decoVars>>
restVars == <<cacheVars, svcVars, concVars, extVars>>

(***************************************************************************)
(* Bounds of the model.                                                    *)
(***************************************************************************)
TickStep == 30          \* seconds the clock advances in one step
MaxNow == 90            \* the clock stops advancing here
FhThreads == 2          \* concurrent callers of the Finnhub limiter
FhCap == 2              \* calls_per_minute the modelled limiter is built with
MaxFhCalls == 4         \* can_make_call calls started in one behaviour
MaxDay == 1             \* the calendar stops advancing here
AvThreads == 2          \* concurrent callers of the Alpha Vantage limiter
MaxAvCalls == 6         \* limiter calls started in one behaviour
AvNearCap == 5          \* Init may place daily_calls this far below the daily cap
MaxSeqCalls == 12       \* limiter calls one sequential caller makes
MaxCacheNow == 30       \* last clock value of the CacheService runs
MaxFhSvcCalls == 4      \* can_make_call calls made by the FinnhubService
MaxAvSvcCalls == 7      \* acquire calls granted to the AlphaVantageService
MaxSvcTicks == 1        \* clock steps while a provider service is exercised
MaxRequests == 3        \* concurrent get_quote requests started in one behaviour
MaxFhStatsCalls == 1    \* get_stats calls made while other threads are inside can_make_call
MaxAgeTicks == 2        \* clock steps while the age of the returned quotes is followed

MaxMktTicks == 1        \* clock steps while the market endpoints are exercised
MaxLen == 4             \* longest price series enumerated in full
MaxPrice == 3           \* prices of the enumerated series are 1..MaxPrice
MaxPeriod == 3          \* largest small period passed to an indicator
MaxTrim == 1            \* bars a high, low or close list may fall short by
MaxBars == 3            \* entries of a historical payload
MaxBarDay == 3          \* the days of a payload's entries are 1..MaxBarDay
MaxDecoCalls == 3       \* calls of a function wrapped with the cached decorator

(***************************************************************************)
(* Program constants.                                                      *)
(***************************************************************************)
window_size == 60       \* FinnhubRateLimiter.window_size
MinuteCap == 5          \* Alpha Vantage: calls per minute
DailyCap == 500         \* Alpha Vantage: calls per day
MinuteWindow == 60      \* Alpha Vantage: seconds between minute refills
default_timeout == 300  \* CacheService.__init__ default_timeout
FhQuoteTtl == 7200      \* finnhub_service.CACHE_TTL['quote']
FhCandlesTtl == 14400   \* finnhub_service.CACHE_TTL['candles']
FhCandleDays == 180     \* default range of get_candles, in days
DaySeconds == 86400     \* timedelta(days=1)
AvQuoteTtl == 3600      \* alpha_vantage_service.CACHE_TTL['quote']
AvSearchTtl == 86400    \* alpha_vantage_service.CACHE_TTL['search']
AvHistoricalTtl == 86400        \* get_historical_data: fresh entry
ApiHistoricalTtl == 300         \* api/stocks.py: the historical endpoint's entry
IndicesTtl == 60        \* api/market.py: the entry of the indices endpoint
MoversTtl == 300        \* api/market.py: the entry of the movers endpoint
MoversLimitCap == 50    \* api/market.py: the largest limit of the movers endpoint
SmaShortPeriod == 20    \* calculate_all_indicators: sma_20
SmaMidPeriod == 50      \* calculate_all_indicators: sma_50
SmaLongPeriod == 200    \* calculate_all_indicators: sma_200
EmaFastPeriod == 12     \* calculate_all_indicators: ema_12
EmaSlowPeriod == 26     \* calculate_all_indicators: ema_26
RsiPeriod == 14         \* calculate_rsi: default period
MacdFast == 12          \* calculate_macd: default fast_period
MacdSlow == 26          \* calculate_macd: default slow_period
MacdSignal == 9         \* calculate_macd: default signal_period
BollingerPeriod == 20   \* calculate_bollinger_bands: default period
BollingerStdDev == 2    \* calculate_bollinger_bands: default std_dev
AtrPeriod == 14         \* calculate_atr: default period
TrendShort == 20        \* identify_trend: default sma_short
TrendLong == 50         \* identify_trend: default sma_long
DecoTimeout == 60       \* cache_service.py: the timeout of the decorator's usage
Scale == 10000          \* resolution kept for the results of ewm()
AvHistoricalStaleTtl == 864000  \* get_historical_data: stale entry

NoThread == 0
FhThreadIds == 1..FhThreads
AvThreadIds == 1..AvThreads

Tick ==
    /\ now + TickStep <= MaxNow
    /\ now' = now + TickStep
    /\ UNCHANGED today

NewDay ==
    /\ today + 1 <= MaxDay
    /\ today' = today + 1
    /\ UNCHANGED now

(***************************************************************************)
(* FinnhubRateLimiter.can_make_call, statement by statement.  The class    *)
(* takes no lock, so a thread can be pre-empted between any two            *)
(* statements; deque operations themselves are atomic.                     *)
(***************************************************************************)
FhCutoff(t) == fh_current_time[t] - window_size

FhReturn(t, r) ==
    /\ fh_pc' = [fh_pc EXCEPT ![t] = "idle"]
    /\ fh_ret' = [fh_ret EXCEPT ![t] = r]

FhGoto(t, l) ==
    /\ fh_pc' = [fh_pc EXCEPT ![t] = l]
    /\ UNCHANGED fh_ret

\* line 23-24: current_time = time.time(); cutoff = current_time - window_size
FhStart(t) ==
    /\ fh_pc[t] = "idle"
    /\ fh_started < MaxFhCalls
    /\ fh_started' = fh_started + 1
    /\ fh_current_time' = [fh_current_time EXCEPT ![t] = now]
    /\ FhGoto(t, "l27_nonempty")
    /\ UNCHANGED <<call_timestamps, total_calls, blocked_calls, fh_tmp, fh_granted>>

\* line 27, first operand: while self.call_timestamps ...
FhWhileNonEmpty(t) ==
    /\ fh_pc[t] = "l27_nonempty"
    /\ IF call_timestamps # <<>> THEN FhGoto(t, "l27_head") ELSE FhGoto(t, "l31")
    /\ UNCHANGED <<call_timestamps, total_calls, blocked_calls, fh_current_time,
                   fh_tmp, fh_started, fh_granted>>

\* line 27, second operand: ... and self.call_timestamps[0] < cutoff
\* (IndexError when another thread emptied the deque in between)
FhWhileHead(t) ==
    /\ fh_pc[t] = "l27_head"
    /\ IF call_timestamps = <<>>
         THEN FhReturn(t, "raise")
         ELSE IF Head(call_timestamps) < FhCutoff(t)
                THEN FhGoto(t, "l28")
                ELSE FhGoto(t, "l31")
    /\ UNCHANGED <<call_timestamps, total_calls, blocked_calls, fh_current_time,
                   fh_tmp, fh_started, fh_granted>>

\* line 28: self.call_timestamps.popleft()
FhPopleft(t) ==
    /\ fh_pc[t] = "l28"
    /\ IF call_timestamps = <<>>
         THEN FhReturn(t, "raise") /\ UNCHANGED call_timestamps
         ELSE call_timestamps' = Tail(call_timestamps) /\ FhGoto(t, "l27_nonempty")
    /\ UNCHANGED <<total_calls, blocked_calls, fh_current_time, fh_tmp,
                   fh_started, fh_granted>>

\* line 31: if len(self.call_timestamps) < self.calls_per_minute
FhBelowLimitOffByOne(q) == Len(q) <= FhCap

FhBelowLimit(q) == Len(q) < FhCap

FhCheck(t) ==
    /\ fh_pc[t] = "l31"
    /\ IF FhBelowLimit(call_timestamps) THEN FhGoto(t, "l32") ELSE FhGoto(t, "l36_load")
    /\ UNCHANGED <<call_timestamps, total_calls, blocked_calls, fh_current_time,
                   fh_tmp, fh_started, fh_granted>>

\* line 32: self.call_timestamps.append(current_time)
FhAppend(t) ==
    /\ fh_pc[t] = "l32"
    /\ call_timestamps' = Append(call_timestamps, fh_current_time[t])
    /\ fh_granted' = Append(fh_granted, fh_current_time[t])
    /\ FhGoto(t, "l33_load")
    /\ UNCHANGED <<total_calls, blocked_calls, fh_current_time, fh_tmp, fh_started>>

\* line 33: self.total_calls += 1  (load, then store)
FhTotalLoad(t) ==
    /\ fh_pc[t] = "l33_load"
    /\ fh_tmp' = [fh_tmp EXCEPT ![t] = total_calls]
    /\ FhGoto(t, "l33_store")
    /\ UNCHANGED <<call_timestamps, total_calls, blocked_calls, fh_current_time,
                   fh_started, fh_granted>>

\* line 33-34: store, return True
FhTotalStore(t) ==
    /\ fh_pc[t] = "l33_store"
    /\ total_calls' = fh_tmp[t] + 1
    /\ FhReturn(t, "true")
    /\ UNCHANGED <<call_timestamps, blocked_calls, fh_current_time, fh_tmp,
                   fh_started, fh_granted>>

\* line 36: self.blocked_calls += 1  (load, then store)
FhBlockedLoad(t) ==
    /\ fh_pc[t] = "l36_load"
    /\ fh_tmp' = [fh_tmp EXCEPT ![t] = blocked_calls]
    /\ FhGoto(t, "l36_store")
    /\ UNCHANGED <<call_timestamps, total_calls, blocked_calls, fh_current_time,
                   fh_started, fh_granted>>

FhBlockedStore(t) ==
    /\ fh_pc[t] = "l36_store"
    /\ blocked_calls' = fh_tmp[t] + 1
    /\ FhGoto(t, "l37")
    /\ UNCHANGED <<call_timestamps, total_calls, fh_current_time, fh_tmp,
                   fh_started, fh_granted>>

\* line 37-39: wait_time = self.call_timestamps[0] + ...; return False
FhWaitTime(t) ==
    /\ fh_pc[t] = "l37"
    /\ IF call_timestamps = <<>> THEN FhReturn(t, "raise") ELSE FhReturn(t, "false")
    /\ UNCHANGED <<call_timestamps, total_calls, blocked_calls, fh_current_time,
                   fh_tmp, fh_started, fh_granted>>

FhInit ==
    /\ call_timestamps = <<>>
    /\ total_calls = 0
    /\ blocked_calls = 0
    /\ fh_pc = [t \in FhThreadIds |-> "idle"]
    /\ fh_current_time = [t \in FhThreadIds |-> 0]
    /\ fh_tmp = [t \in FhThreadIds |-> 0]
    /\ fh_ret = [t \in FhThreadIds |-> "none"]
    /\ fh_started = 0
    /\ fh_granted = <<>>

(***************************************************************************)
(* AlphaVantageRateLimiter.  can_make_request, acquire and get_stats each  *)
(* run "with self.lock": a thread waits for the lock, executes             *)
(* _reset_if_needed and its own body statement by statement, and releases  *)
(* the lock on return.                                                     *)
(***************************************************************************)
AvOps == {"acquire", "can_make_request", "get_stats"}

AvRefillDueAfter(t, last) == t - last > MinuteWindow

\* _reset_if_needed, line 73: the minute refill is due
AvRefillDue(t, last) == t - last >= MinuteWindow

AvAllowedTokensOnly(tokens, daily) == tokens > 0

\* lines 38, 51 and 92: self.minute_tokens > 0 and self.daily_calls < 500
AvAllowed(tokens, daily) == tokens > 0 /\ daily < DailyCap

\* get_stats, lines 88-93
AvStats(tokens, daily) ==
    [minute_tokens_remaining |-> tokens,
     daily_calls_used |-> daily,
     daily_calls_remaining |-> DailyCap - daily,
     can_make_request |-> AvAllowed(tokens, daily)]

AvGoto(t, l) == av_pc' = [av_pc EXCEPT ![t] = l]

\* a caller enters one of the three public methods
AvCall(t, op) ==
    /\ av_pc[t] = "idle"
    /\ av_started < MaxAvCalls
    /\ av_started' = av_started + 1
    /\ av_op' = [av_op EXCEPT ![t] = op]
    /\ AvGoto(t, "lock")
    /\ UNCHANGED <<minute_tokens, daily_calls, last_minute_reset, last_day_reset,
                   av_lock, av_today, av_ret, av_window_grants>>

\* threading.Lock: acquired only when no thread holds it
AvLockFreeNever == TRUE

AvLockFree == av_lock = NoThread

\* with self.lock:  (lines 36, 48, 86)
AvLockAcquire(t) ==
    /\ av_pc[t] = "lock"
    /\ AvLockFree
    /\ av_lock' = t
    /\ AvGoto(t, "reset_minute")
    /\ UNCHANGED <<minute_tokens, daily_calls, last_minute_reset, last_day_reset,
                   av_op, av_today, av_ret, av_started, av_window_grants>>

\* _reset_if_needed, lines 69-76: read the clock and the date, refill the minute
AvResetMinute(t) ==
    /\ av_pc[t] = "reset_minute"
    /\ av_today' = [av_today EXCEPT ![t] = today]
    /\ IF AvRefillDue(now, last_minute_reset)
         THEN /\ minute_tokens' = MinuteCap
              /\ last_minute_reset' = now
              /\ av_window_grants' = 0
         ELSE UNCHANGED <<minute_tokens, last_minute_reset, av_window_grants>>
    /\ AvGoto(t, "reset_day")
    /\ UNCHANGED <<daily_calls, last_day_reset, av_lock, av_op, av_ret, av_started>>

\* _reset_if_needed, lines 79-82: the daily reset
AvResetDay(t) ==
    /\ av_pc[t] = "reset_day"
    /\ IF av_today[t] > last_day_reset
         THEN /\ daily_calls' = 0
              /\ last_day_reset' = av_today[t]
         ELSE UNCHANGED <<daily_calls, last_day_reset>>
    /\ AvGoto(t, "check")
    /\ UNCHANGED <<minute_tokens, last_minute_reset, av_lock, av_op, av_today,
                   av_ret, av_started, av_window_grants>>

\* acquire line 51 (the test), can_make_request line 38, get_stats lines 88-93
AvCheck(t) ==
    /\ av_pc[t] = "check"
    /\ CASE av_op[t] = "acquire" ->
              IF AvAllowed(minute_tokens, daily_calls)
                THEN AvGoto(t, "take_token") /\ UNCHANGED av_ret
                ELSE /\ AvGoto(t, "unlock")
                     /\ av_ret' = FALSE
         [] av_op[t] = "can_make_request" ->
              /\ AvGoto(t, "unlock")
              /\ av_ret' = AvAllowed(minute_tokens, daily_calls)
         [] OTHER ->
              /\ AvGoto(t, "unlock")
              /\ av_ret' = AvStats(minute_tokens, daily_calls)
    /\ UNCHANGED <<minute_tokens, daily_calls, last_minute_reset, last_day_reset,
                   av_lock, av_op, av_today, av_started, av_window_grants>>

\* acquire line 52: self.minute_tokens -= 1
AvTakeToken(t) ==
    /\ av_pc[t] = "take_token"
    /\ minute_tokens' = minute_tokens - 1
    /\ av_window_grants' = av_window_grants + 1
    /\ AvGoto(t, "count_daily")
    /\ UNCHANGED <<daily_calls, last_minute_reset, last_day_reset, av_lock, av_op,
                   av_today, av_ret, av_started>>

\* acquire lines 53-59: self.daily_calls += 1; return True
AvCountDaily(t) ==
    /\ av_pc[t] = "count_daily"
    /\ daily_calls' = daily_calls + 1
    /\ av_ret' = TRUE
    /\ AvGoto(t, "unlock")
    /\ UNCHANGED <<minute_tokens, last_minute_reset, last_day_reset, av_lock, av_op,
                   av_today, av_started, av_window_grants>>

\* leaving the with block releases the lock; the frame's locals are gone
AvUnlock(t) ==
    /\ av_pc[t] = "unlock"
    /\ av_lock' = NoThread
    /\ AvGoto(t, "idle")
    /\ av_op' = [av_op EXCEPT ![t] = "none"]
    /\ av_today' = [av_today EXCEPT ![t] = 0]
    /\ UNCHANGED <<minute_tokens, daily_calls, last_minute_reset, last_day_reset,
                   av_ret, av_started, av_window_grants>>

\* __init__, lines 19-27.  daily_calls is 0 after construction; Init also admits
\* the state of a limiter that has already granted DailyCap - AvNearCap calls
\* earlier the same day and has just refilled (only clock differences matter).
AvInit ==
    /\ minute_tokens = MinuteCap
    /\ daily_calls \in {0, DailyCap - AvNearCap}
    /\ last_minute_reset = now
    /\ last_day_reset = today
    /\ av_lock = NoThread
    /\ av_pc = [t \in AvThreadIds |-> "idle"]
    /\ av_op = [t \in AvThreadIds |-> "none"]
    /\ av_today = [t \in AvThreadIds |-> 0]
    /\ av_ret = "none"
    /\ av_started = 0
    /\ av_window_grants = 0

AvInCriticalSection(t) ==
    av_pc[t] \in {"reset_minute", "reset_day", "check", "take_token", "count_daily",
                  "unlock"}

(***************************************************************************)
(* The limiters' methods as whole calls (one caller at a time).            *)
(***************************************************************************)
FhEvictNone(q, cutoff) == q

FhEvictOne(q, cutoff) == IF q # <<>> /\ Head(q) < cutoff THEN Tail(q) ELSE q

\* finnhub_limiter.py lines 27-28 and 46-47: drop the timestamps older than cutoff
RECURSIVE FhEvict(_, _)
FhEvict(q, cutoff) ==
    IF q # <<>> /\ Head(q) < cutoff THEN FhEvict(Tail(q), cutoff) ELSE q

\* FinnhubRateLimiter.get_stats, lines 49-54
FhStats(q, total, blocked) ==
    [calls_this_minute |-> Len(q),
     remaining |-> FhCap - Len(q),
     total_calls |-> total,
     blocked_calls |-> blocked]

\* FinnhubRateLimiter.can_make_call
SeqFhCanMakeCall ==
    /\ seq_subject = "finnhub"
    /\ seq_calls < MaxSeqCalls
    /\ seq_calls' = seq_calls + 1
    /\ LET q == FhEvict(call_timestamps, now - window_size) IN
         IF FhBelowLimit(q)
           THEN /\ call_timestamps' = Append(q, now)
                /\ total_calls' = total_calls + 1
                /\ fh_granted' = Append(fh_granted, now)
                /\ seq_ret' = [op |-> "can_make_call", val |-> TRUE]
                /\ UNCHANGED <<blocked_calls, seq_denied>>
           ELSE /\ call_timestamps' = q
                /\ blocked_calls' = blocked_calls + 1
                /\ seq_ret' = [op |-> "can_make_call", val |-> FALSE]
                /\ seq_denied' = seq_denied + 1
                /\ UNCHANGED <<total_calls, fh_granted>>
    /\ UNCHANGED <<fh_pc, fh_current_time, fh_tmp, fh_ret, fh_started>>
    /\ UNCHANGED <<clockVars, avVars, restVars, seq_subject, av_granted>>

\* FinnhubRateLimiter.get_stats
SeqFhGetStats ==
    /\ seq_subject = "finnhub"
    /\ seq_calls < MaxSeqCalls
    /\ seq_calls' = seq_calls + 1
    /\ LET q == FhEvict(call_timestamps, now - window_size) IN
         /\ call_timestamps' = q
         /\ seq_ret' = [op |-> "fh_get_stats", val |-> FhStats(q, total_calls, blocked_calls)]
    /\ UNCHANGED <<total_calls, blocked_calls, fh_granted, fh_pc, fh_current_time,
                   fh_tmp, fh_ret, fh_started>>
    /\ UNCHANGED <<clockVars, avVars, restVars, seq_subject, seq_denied, av_granted>>

\* the counters of an AlphaVantageRateLimiter as one value
AvState ==
    [minute_tokens |-> minute_tokens,
     daily_calls |-> daily_calls,
     last_minute_reset |-> last_minute_reset,
     last_day_reset |-> last_day_reset]

AvResetMinuteOnly(s, t, d) ==
    IF AvRefillDue(t, s.last_minute_reset)
      THEN [s EXCEPT !.minute_tokens = MinuteCap, !.last_minute_reset = t]
      ELSE s

\* AlphaVantageRateLimiter._reset_if_needed at time t on day d
AvResetIfNeeded(s, t, d) ==
    LET s1 == IF AvRefillDue(t, s.last_minute_reset)
                THEN [s EXCEPT !.minute_tokens = MinuteCap, !.last_minute_reset = t]
                ELSE s
    IN IF d > s1.last_day_reset
         THEN [s1 EXCEPT !.daily_calls = 0, !.last_day_reset = d]
         ELSE s1

AvStore(s) ==
    /\ minute_tokens' = s.minute_tokens
    /\ daily_calls' = s.daily_calls
    /\ last_minute_reset' = s.last_minute_reset
    /\ last_day_reset' = s.last_day_reset

\* AlphaVantageRateLimiter.acquire
SeqAvAcquire ==
    /\ seq_subject = "alpha_vantage"
    /\ seq_calls < MaxSeqCalls
    /\ seq_calls' = seq_calls + 1
    /\ LET s == AvResetIfNeeded(AvState, now, today)
           refilled == s.last_minute_reset # last_minute_reset
       IN IF AvAllowed(s.minute_tokens, s.daily_calls)
            THEN /\ AvStore([s EXCEPT !.minute_tokens = @ - 1, !.daily_calls = @ + 1])
                 /\ av_granted' = Append(av_granted, <<now, today>>)
                 /\ av_window_grants' = (IF refilled THEN 0 ELSE av_window_grants) + 1
                 /\ seq_ret' = [op |-> "acquire", val |-> TRUE]
                 /\ UNCHANGED seq_denied
            ELSE /\ AvStore(s)
                 /\ av_window_grants' = IF refilled THEN 0 ELSE av_window_grants
                 /\ seq_ret' = [op |-> "acquire", val |-> FALSE]
                 /\ seq_denied' = seq_denied + 1
                 /\ UNCHANGED av_granted
    /\ UNCHANGED <<av_lock, av_pc, av_op, av_today, av_ret, av_started>>
    /\ UNCHANGED <<clockVars, fhVars, restVars, seq_subject>>

\* AlphaVantageRateLimiter.can_make_request
SeqAvCanMakeRequest ==
    /\ seq_subject = "alpha_vantage"
    /\ seq_calls < MaxSeqCalls
    /\ seq_calls' = seq_calls + 1
    /\ LET s == AvResetIfNeeded(AvState, now, today) IN
         /\ AvStore(s)
         /\ av_window_grants' =
              IF s.last_minute_reset # last_minute_reset THEN 0 ELSE av_window_grants
         /\ seq_ret' = [op |-> "can_make_request",
                        val |-> AvAllowed(s.minute_tokens, s.daily_calls)]
    /\ UNCHANGED <<av_lock, av_pc, av_op, av_today, av_ret, av_started, av_granted>>
    /\ UNCHANGED <<clockVars, fhVars, restVars, seq_subject, seq_denied>>

\* AlphaVantageRateLimiter.get_stats
SeqAvGetStats ==
    /\ seq_subject = "alpha_vantage"
    /\ seq_calls < MaxSeqCalls
    /\ seq_calls' = seq_calls + 1
    /\ LET s == AvResetIfNeeded(AvState, now, today) IN
         /\ AvStore(s)
         /\ av_window_grants' =
              IF s.last_minute_reset # last_minute_reset THEN 0 ELSE av_window_grants
         /\ seq_ret' = [op |-> "av_get_stats",
                        val |-> AvStats(s.minute_tokens, s.daily_calls)]
    /\ UNCHANGED <<av_lock, av_pc, av_op, av_today, av_ret, av_started, av_granted>>
    /\ UNCHANGED <<clockVars, fhVars, restVars, seq_subject, seq_denied>>

SeqInit ==
    /\ seq_calls = 0
    /\ seq_ret = [op |-> "none", val |-> FALSE]
    /\ seq_denied = 0
    /\ av_granted = <<>>

(***************************************************************************)
(* Python values and their JSON serialisation.  A value is                 *)
(* [kind, keykind, items, num]: kind is the Python type, keykind the type   *)
(* of a dict's keys, items the content of a container or string, num the   *)
(* value of an int.                                                        *)
(***************************************************************************)
PyNone == [kind |-> "none", keykind |-> "", items |-> <<>>, num |-> 0]
PyTrue == [kind |-> "bool", keykind |-> "", items |-> <<"True">>, num |-> 0]
PyFalse == [kind |-> "bool", keykind |-> "", items |-> <<"False">>, num |-> 0]
PyBool(b) == IF b THEN PyTrue ELSE PyFalse
PyInt(n) == [kind |-> "int", keykind |-> "", items |-> <<>>, num |-> n]
PyStr(s) == [kind |-> "str", keykind |-> "", items |-> <<s>>, num |-> 0]
PyList(xs) == [kind |-> "list", keykind |-> "", items |-> xs, num |-> 0]
PyTuple(xs) == [kind |-> "tuple", keykind |-> "", items |-> xs, num |-> 0]
PyDict(kk, xs) == [kind |-> "dict", keykind |-> kk, items |-> xs, num |-> 0]
PyObject == [kind |-> "object", keykind |-> "", items |-> <<>>, num |-> 0]

\* Python truth value: None, False, 0, "" and empty containers are falsy
Truthy(v) ==
    CASE v.kind = "none" -> FALSE
      [] v.kind = "bool" -> v = PyTrue
      [] v.kind = "int" -> v.num # 0
      [] v.kind = "str" -> v.items # <<"">>
      [] v.kind = "object" -> TRUE
      [] OTHER -> v.items # <<>>

\* json.dumps: tuples become arrays, dict keys become strings, an arbitrary
\* object raises TypeError
JsonSerializable(v) == v.kind # "object"

JsonDumps(v) ==
    CASE v.kind = "none" -> [jkind |-> "null", items |-> <<>>, num |-> 0]
      [] v.kind = "bool" -> [jkind |-> "boolean", items |-> v.items, num |-> 0]
      [] v.kind = "int" -> [jkind |-> "number", items |-> <<>>, num |-> v.num]
      [] v.kind = "str" -> [jkind |-> "string", items |-> v.items, num |-> 0]
      [] v.kind \in {"list", "tuple"} -> [jkind |-> "array", items |-> v.items, num |-> 0]
      [] OTHER -> [jkind |-> "object", items |-> v.items, num |-> 0]

\* json.loads: arrays become lists, objects become dicts with str keys
JsonLoads(j) ==
    CASE j.jkind = "null" -> PyNone
      [] j.jkind = "boolean" -> [kind |-> "bool", keykind |-> "", items |-> j.items, num |-> 0]
      [] j.jkind = "number" -> PyInt(j.num)
      [] j.jkind = "string" -> [kind |-> "str", keykind |-> "", items |-> j.items, num |-> 0]
      [] j.jkind = "array" -> PyList(j.items)
      [] OTHER -> PyDict("str", j.items)

(***************************************************************************)
(* The Redis store as CacheService uses it.  A key lives until its expiry  *)
(* time; the store drops it then.                                          *)
(***************************************************************************)
Live(st, t) == [k \in {x \in DOMAIN st : st[x].expires_at > t} |-> st[k]]

\* redis SETEX key seconds value: the time must be a positive integer
SetexRejects(seconds) == seconds <= 0

\* redis KEYS pattern: "*" matches every key, any other pattern itself
Matches(pattern, k) == pattern = "*" \/ pattern = k

Without(st, ks) == [k \in DOMAIN st \ ks |-> st[k]]

\* a store operation raises when Redis does not answer
Usable(ok, up) == ok /\ up

\* the outcome of a method body: the store it leaves, the value it returns or
\* the fact that it raised; caught records that an except clause ran
Raised(st) == [store |-> st, val |-> PyNone, raised |-> TRUE, caught |-> FALSE]
Returned(st, v) == [store |-> st, val |-> v, raised |-> FALSE, caught |-> FALSE]

\* except Exception as e: ... return <fallback>
CatchNothing(r, fallback) == r

Catch(r, fallback) ==
    IF r.raised THEN [r EXCEPT !.raised = FALSE, !.val = fallback, !.caught = TRUE] ELSE r

\* CacheService.get, lines 40-50
CacheGet(st, ok, up, k) ==
    IF ~ok THEN Returned(st, PyNone)
    ELSE Catch(IF ~up THEN Raised(st)
               ELSE IF k \in DOMAIN st
                      THEN Returned(st, JsonLoads(st[k].data))
                      ELSE Returned(st, PyNone),
               PyNone)

\* line 68: timeout = timeout or self.default_timeout
EffectiveTimeoutIgnored(timeout) == default_timeout

EffectiveTimeout(timeout) ==
    IF Truthy(timeout) THEN timeout.num ELSE default_timeout

\* CacheService.set, lines 64-74
CacheSet(st, ok, up, t, k, v, timeout) ==
    IF ~ok THEN Returned(st, PyFalse)
    ELSE Catch(IF ~JsonSerializable(v) \/ ~up \/ SetexRejects(EffectiveTimeout(timeout))
                 THEN Raised(st)
                 ELSE Returned([x \in DOMAIN st \cup {k} |->
                                  IF x = k
                                    THEN [data |-> JsonDumps(v),
                                          expires_at |-> t + EffectiveTimeout(timeout)]
                                    ELSE st[x]],
                               PyTrue),
               PyFalse)

\* CacheService.delete, lines 86-94
CacheDelete(st, ok, up, k) ==
    IF ~ok THEN Returned(st, PyFalse)
    ELSE Catch(IF ~up THEN Raised(st) ELSE Returned(Without(st, {k}), PyTrue), PyFalse)

\* CacheService.delete_pattern, lines 106-116
CacheDeletePattern(st, ok, up, pattern) ==
    IF ~ok THEN Returned(st, PyFalse)
    ELSE Catch(IF ~up THEN Raised(st)
               ELSE Returned(Without(st, {k \in DOMAIN st : Matches(pattern, k)}), PyTrue),
               PyFalse)

\* CacheService.exists, lines 128-135
CacheExists(st, ok, up, k) ==
    IF ~ok THEN Returned(st, PyFalse)
    ELSE Catch(IF ~up THEN Raised(st) ELSE Returned(st, PyBool(k \in DOMAIN st)), PyFalse)

\* CacheService.get_ttl, lines 147-155: redis TTL answers -2 for a missing key
CacheGetTtl(st, ok, up, t, k) ==
    IF ~ok THEN Returned(st, PyNone)
    ELSE Catch(IF ~up THEN Raised(st)
               ELSE LET ttl == IF k \in DOMAIN st THEN st[k].expires_at - t ELSE -2
                    IN Returned(st, IF ttl > 0 THEN PyInt(ttl) ELSE PyNone),
               PyNone)

(***************************************************************************)
(* CacheService calls made by a client, one whole call per step.           *)
(***************************************************************************)
CacheKeys == {"k1", "k2"}
CachePatterns == {"*", "k1"}
CacheValues ==
    {PyInt(0), PyTuple(<<"1", "2">>), PyObject}
CacheTimeouts == {PyNone, PyInt(-1), PyInt(0), PyInt(TickStep)}

NoSet == [key |-> "", at |-> -1, arg |-> PyNone, ttl |-> PyNone, usable |-> FALSE]

CacheDone(op, k, r) ==
    /\ store' = r.store
    /\ cache_ret' = [op |-> op, key |-> k, val |-> r.val, raised |-> r.raised,
                     caught |-> r.caught]
    /\ cache_flip' = 1 - cache_flip
    /\ UNCHANGED <<client_ok, store_up>>

DoGet(k) ==
    /\ CacheDone("get", k, CacheGet(store, client_ok, store_up, k))
    /\ UNCHANGED last_set

DoSet(k, v, timeout) ==
    /\ CacheDone("set", k, CacheSet(store, client_ok, store_up, now, k, v, timeout))
    /\ last_set' = [key |-> k, at |-> now, arg |-> v, ttl |-> timeout,
                    usable |-> Usable(client_ok, store_up)]

DoDelete(k) ==
    /\ CacheDone("delete", k, CacheDelete(store, client_ok, store_up, k))
    /\ UNCHANGED last_set

DoDeletePattern(p) ==
    /\ CacheDone("delete_pattern", p, CacheDeletePattern(store, client_ok, store_up, p))
    /\ UNCHANGED last_set

DoExists(k) ==
    /\ CacheDone("exists", k, CacheExists(store, client_ok, store_up, k))
    /\ UNCHANGED last_set

DoGetTtl(k) ==
    /\ CacheDone("get_ttl", k, CacheGetTtl(store, client_ok, store_up, now, k))
    /\ UNCHANGED last_set

\* Redis becomes unreachable, or reachable again
StoreToggle ==
    /\ store_up' = ~store_up
    /\ UNCHANGED <<store, client_ok, cache_flip, cache_ret, last_set>>

\* the clock advances and Redis drops the keys whose time is up
CacheTick ==
    /\ now + TickStep <= MaxCacheNow
    /\ Tick
    /\ store' = Live(store, now')
    /\ UNCHANGED <<client_ok, store_up, cache_flip, cache_ret, last_set>>

\* CacheService.__init__, lines 22-28: redis.from_url may raise
CacheInit ==
    /\ store = <<>>
    /\ client_ok \in BOOLEAN
    /\ store_up = TRUE
    /\ cache_flip = 0
    /\ cache_ret = [op |-> "none", key |-> "", val |-> PyNone, raised |-> FALSE,
                    caught |-> FALSE]
    /\ last_set = NoSet
(***************************************************************************)
(* The provider services: each handler as one whole call over the cache,   *)
(* the service's limiter and the upstream HTTP API.  The upstream answer   *)
(* is an input of the call.                                                *)
(***************************************************************************)
\* what one run exercises: the Finnhub handlers, the Alpha Vantage quote
\* handler, the Alpha Vantage search and history handlers, or the historical
\* endpoint of the API over StockDataService
SvcSubjects == {"finnhub", "alpha_vantage", "alpha_vantage_lookup", "stock_data"}
Symbols == {"AAPL"}
Keywords == {"Apple"}
\* request.args 'period' and 'interval' of the historical endpoint
Periods == {"1y", "6mo"}
Intervals == {"1d"}

\* str.upper() and str.lower() on the inputs above
Upper(s) == IF s = "Apple" THEN "APPLE" ELSE s
Lower(s) == IF s = "Apple" THEN "apple" ELSE IF s = "AAPL" THEN "aapl" ELSE s

\* what requests.get / raise_for_status / resp.json() / the payload can be
FhQuoteOutcomes == {"timeout", "http_error", "bad_json", "no_price", "zero_pc", "ok"}
FhCandlesOutcomes == {"timeout", "http_error", "bad_json", "no_data", "empty", "bad_field", "ok"}
AvQuoteOutcomes ==
    {"timeout", "http_error", "bad_json", "error_message", "note", "empty", "ok"}
AvSearchOutcomes == {"timeout", "http_error", "bad_json", "empty", "ok"}
AvHistoricalOutcomes ==
    {"timeout", "http_error", "bad_json", "error_message", "note", "empty", "bad_field", "ok"}
\* what yf.Ticker(symbol).history(...) and the conversion of its rows can be
YfHistoryOutcomes == {"timeout", "empty", "bad_field", "ok"}

UpstreamRaisesNever(o) == FALSE

\* outcomes on which a statement of the try block raises: requests.get,
\* raise_for_status, resp.json(), a float()/int() conversion, a division by pc = 0
UpstreamRaises(o) == o \in {"timeout", "http_error", "bad_json", "bad_field", "zero_pc"}

FhQuoteFlagged(sym, t) ==
    PyDict("str", <<"symbol", Upper(sym), "name", sym, "price", "101.5",
                    "updated_at", ToString(t), "source", "finnhub", "stale", "True">>)

\* the dict get_quote builds from a valid payload fetched at time t
FhQuote(sym, t) ==
    PyDict("str", <<"symbol", Upper(sym), "name", sym, "price", "101.5",
                    "updated_at", ToString(t), "source", "finnhub">>)

AvQuote(sym, t) ==
    PyDict("str", <<"symbol", Upper(sym), "name", sym, "price", "101.5",
                    "updated_at", ToString(t), "source", "alpha_vantage">>)

\* strftime('%Y-%m-%d') of a day of January 2024, days 1 to 9
DateStr(day) == "2024-01-0" \o ToString(day)

\* the 'date' of each bar of a list of bars given by their days
Dates(days) == [i \in 1..Len(days) |-> DateStr(days[i])]

\* get_candles, lines 127-136: one bar per entry of data['t'], in the order
\* of the payload (ts: the day of each timestamp)
FhHistorical(ts) == [i \in 1..Len(ts) |-> ts[i]]

\* the elements of a set of days, ascending
RECURSIVE SortedDays(_)
SortedDays(S) ==
    IF S = {} THEN <<>>
    ELSE LET first == CHOOSE x \in S : \A y \in S : x <= y
         IN <<first>> \o SortedDays(S \ {first})

\* get_historical_data, lines 256-270: one bar per key of the payload's
\* 'Time Series (Daily)' object (keys: the days in the order of the JSON
\* text; a key that occurs again replaces the earlier one), sorted by key
AvHistoricalData(keys) == SortedDays({keys[i] : i \in 1..Len(keys)})

\* the payloads of the answer "ok": Finnhub oldest first, Alpha Vantage
\* newest first
FhOkPayload == <<2, 3>>
AvOkPayload == <<3, 2>>

\* the bars of a non-empty series, by their dates
FhBars == PyList(Dates(FhHistorical(FhOkPayload)))
AvBars == PyList(Dates(AvHistoricalData(AvOkPayload)))
YfBars == PyList(<<"2024-01-02", "2024-01-03">>)
AvMatches == PyList(<<"AAPL", "APLE">>)
EmptyList == PyList(<<>>)

HasStale(v) == \E i \in 1..Len(v.items) : i % 2 = 1 /\ v.items[i] = "stale"

\* stale['stale'] = True
WithStale(v) == IF HasStale(v) THEN v ELSE [v EXCEPT !.items = @ \o <<"stale", "True">>]

\* the cache keys the handlers use
FhQuoteKey(sym) == "finnhub:quote:" \o sym
AvQuoteKey(sym) == "av:quote:" \o sym
StaleKey(key) == key \o ":stale"
FhCandlesKey(sym, t) ==
    "finnhub:candles:" \o sym \o ":D:" \o ToString(t - FhCandleDays * DaySeconds)
        \o ":" \o ToString(t)
AvSearchKey(keywords) == "av:search:" \o Lower(keywords)
AvHistoricalKey(sym) == "av:historical:" \o sym \o ":compact"
ApiHistoricalKey(sym, period, interval) ==
    "historical:" \o sym \o ":" \o period \o ":" \o interval

FhStaleTtlSame(ttl) == ttl

\* CACHE_TTL['quote'] * 20
FhStaleTtl(ttl) == ttl * 20

\* CACHE_TTL['quote'] * 10
AvStaleTtl(ttl) == ttl * 10

\* the limiter of a FinnhubService: [q, total, blocked]
FhLimiter == [q |-> call_timestamps, total |-> total_calls, blocked |-> blocked_calls]

\* FinnhubRateLimiter.can_make_call by one caller at time t
FhDecide(lim, t) ==
    LET q == FhEvict(lim.q, t - window_size) IN
      IF FhBelowLimit(q)
        THEN [granted |-> TRUE, lim |-> [lim EXCEPT !.q = Append(q, t), !.total = @ + 1]]
        ELSE [granted |-> FALSE, lim |-> [lim EXCEPT !.q = q, !.blocked = @ + 1]]

AvDecideTwoUnits(s, t, d) ==
    LET s1 == AvResetIfNeeded(s, t, d) IN
      IF AvAllowed(s1.minute_tokens, s1.daily_calls)
        THEN [granted |-> TRUE,
              lim |-> [s1 EXCEPT !.minute_tokens = @ - 2, !.daily_calls = @ + 2]]
        ELSE [granted |-> FALSE, lim |-> s1]

\* AlphaVantageRateLimiter.acquire by one caller at time t on day d
AvDecide(s, t, d) ==
    LET s1 == AvResetIfNeeded(s, t, d) IN
      IF AvAllowed(s1.minute_tokens, s1.daily_calls)
        THEN [granted |-> TRUE,
              lim |-> [s1 EXCEPT !.minute_tokens = @ - 1, !.daily_calls = @ + 1]]
        ELSE [granted |-> FALSE, lim |-> s1]

\* the outcome of a handler call
Handled(r, lim, granted, http, o) ==
    [store |-> r.store, val |-> r.val, raised |-> r.raised, caught |-> r.caught,
     lim |-> lim, granted |-> granted, http |-> http,
     upstream |-> IF http THEN o ELSE "none"]

CacheHitNever(cached) == FALSE

\* if cached:
CacheHit(cached) == Truthy(cached)

\* stale = cache.get(key + ":stale"); if stale: stale['stale'] = True; return stale
\* (item assignment raises TypeError on a value that is not a dict)
FhStaleOr(st, ok, up, key, default) ==
    LET stale == CacheGet(st, ok, up, StaleKey(key)).val IN
      IF Truthy(stale)
        THEN IF stale.kind = "dict" THEN Returned(st, WithStale(stale)) ELSE Raised(st)
        ELSE Returned(st, default)

\* stale = cache_service.get(key + ":stale"); if stale: return stale
AvStaleOr(st, ok, up, key, default) ==
    LET stale == CacheGet(st, ok, up, StaleKey(key)).val IN
      IF Truthy(stale) THEN Returned(st, stale) ELSE Returned(st, default)

\* cache.set(key, v, ttl); cache.set(key + ":stale", v, stale_ttl)
SetBoth(st, ok, up, t, key, v, ttl, stale_ttl) ==
    LET st1 == CacheSet(st, ok, up, t, key, v, PyInt(ttl)).store
    IN CacheSet(st1, ok, up, t, StaleKey(key), v, PyInt(stale_ttl)).store

\* FinnhubService.get_quote, lines 28-91
FhGetQuote(st, ok, up, lim, t, sym, o) ==
    LET key == FhQuoteKey(sym)
        cached == CacheGet(st, ok, up, key).val
        d == FhDecide(lim, t)
    IN IF CacheHit(cached) THEN Handled(Returned(st, cached), lim, FALSE, FALSE, o)
       ELSE IF ~d.granted
         THEN Handled(FhStaleOr(st, ok, up, key, PyNone), d.lim, FALSE, FALSE, o)
         ELSE LET body ==
                    IF UpstreamRaises(o) THEN Raised(st)
                    ELSE IF o = "no_price" THEN Returned(st, PyNone)
                    ELSE Returned(SetBoth(st, ok, up, t, key, FhQuote(sym, t),
                                          FhQuoteTtl, FhStaleTtl(FhQuoteTtl)),
                                  FhQuote(sym, t))
                  handler == FhStaleOr(st, ok, up, key, PyNone)
              IN Handled(IF body.raised /\ handler.raised
                           THEN handler
                           ELSE Catch(body, handler.val),
                         d.lim, TRUE, TRUE, o)

SeriesNonEmptyAlways(series) == TRUE

\* "if self.cache and historical", "if not data": a series with bars
SeriesNonEmpty(series) == Truthy(series)

\* FinnhubService.get_candles with the default range, lines 93-145
FhGetCandles(st, ok, up, lim, t, sym, o) ==
    LET key == FhCandlesKey(sym, t)
        cached == CacheGet(st, ok, up, key).val
        d == FhDecide(lim, t)
    IN IF CacheHit(cached) THEN Handled(Returned(st, cached), lim, FALSE, FALSE, o)
       ELSE IF ~d.granted THEN Handled(Returned(st, EmptyList), d.lim, FALSE, FALSE, o)
       ELSE LET body ==
                  IF UpstreamRaises(o) THEN Raised(st)
                  ELSE IF o = "no_data" THEN Returned(st, EmptyList)
                  ELSE LET historical == IF o = "empty" THEN EmptyList ELSE FhBars
                       IN Returned(IF SeriesNonEmpty(historical)
                                     THEN CacheSet(st, ok, up, t, key, historical,
                                                   PyInt(FhCandlesTtl)).store
                                     ELSE st,
                                   historical)
            IN Handled(Catch(body, EmptyList), d.lim, TRUE, TRUE, o)

\* AlphaVantageService.get_quote, lines 45-146
AvGetQuote(st, ok, up, lim, t, day, sym, o) ==
    LET key == AvQuoteKey(sym)
        cached == CacheGet(st, ok, up, key).val
        d == AvDecide(lim, t, day)
    IN IF CacheHit(cached) THEN Handled(Returned(st, cached), lim, FALSE, FALSE, o)
       ELSE IF ~d.granted
         THEN Handled(AvStaleOr(st, ok, up, key, PyNone), d.lim, FALSE, FALSE, o)
         ELSE LET body ==
                    IF UpstreamRaises(o) THEN Raised(st)
                    ELSE IF o \in {"error_message", "note", "empty"}
                      THEN Returned(st, PyNone)
                    ELSE Returned(SetBoth(st, ok, up, t, key, AvQuote(sym, t),
                                          AvQuoteTtl, AvStaleTtl(AvQuoteTtl)),
                                  AvQuote(sym, t))
              IN Handled(Catch(body, AvStaleOr(st, ok, up, key, PyNone).val),
                         d.lim, TRUE, TRUE, o)

\* AlphaVantageService.search_symbol, lines 148-204
AvSearchSymbol(st, ok, up, lim, t, day, keywords, o) ==
    LET key == AvSearchKey(keywords)
        cached == CacheGet(st, ok, up, key).val
        d == AvDecide(lim, t, day)
    IN IF CacheHit(cached) THEN Handled(Returned(st, cached), lim, FALSE, FALSE, o)
       ELSE IF ~d.granted THEN Handled(Returned(st, EmptyList), d.lim, FALSE, FALSE, o)
       ELSE LET body ==
                  IF UpstreamRaises(o) THEN Raised(st)
                  ELSE IF o = "empty" THEN Returned(st, EmptyList)
                  ELSE Returned(CacheSet(st, ok, up, t, key, AvMatches,
                                         PyInt(AvSearchTtl)).store,
                                AvMatches)
            IN Handled(Catch(body, EmptyList), d.lim, TRUE, TRUE, o)

\* AlphaVantageService.get_historical_data, lines 209-282
AvGetHistoricalData(st, ok, up, lim, t, day, sym, o) ==
    LET key == AvHistoricalKey(sym)
        cached == CacheGet(st, ok, up, key).val
        d == AvDecide(lim, t, day)
    IN IF CacheHit(cached) THEN Handled(Returned(st, cached), lim, FALSE, FALSE, o)
       ELSE IF ~d.granted
         THEN Handled(AvStaleOr(st, ok, up, key, EmptyList), d.lim, FALSE, FALSE, o)
         ELSE LET body ==
                    IF UpstreamRaises(o) THEN Raised(st)
                    ELSE IF o \in {"error_message", "note", "empty"}
                      THEN Returned(st, EmptyList)
                    ELSE Returned(IF SeriesNonEmpty(AvBars)
                                    THEN SetBoth(st, ok, up, t, key, AvBars,
                                                 AvHistoricalTtl, AvHistoricalStaleTtl)
                                    ELSE st,
                                  AvBars)
              IN Handled(Catch(body, EmptyList), d.lim, TRUE, TRUE, o)

\* StockDataService.get_historical_data, lines 151-191: yfinance only
StockGetHistoricalData(st, o) ==
    Catch(IF UpstreamRaises(o) THEN Raised(st)
          ELSE IF o = "empty" THEN Returned(st, EmptyList)
          ELSE Returned(st, YfBars),
          EmptyList)

\* the body of an error response: jsonify({'error': ...})
ErrorBody(msg) == PyDict("str", <<"error", msg>>)

\* the outcome of an endpoint call: the handler outcome and the HTTP status
Responded(r, http, o, status) ==
    [store |-> r.store, val |-> r.val, raised |-> r.raised, caught |-> r.caught,
     granted |-> FALSE, http |-> http, upstream |-> IF http THEN o ELSE "none",
     status |-> status]

\* the endpoint /api/stocks/<symbol>/historical, api/stocks.py lines 90-120;
\* val is the 'data' of a 200 response and the body of an error response.
\* The except clause of line 118 has nothing to catch: CacheService and
\* StockDataService handle their own exceptions.
ApiGetHistoricalData(st, ok, up, t, sym, period, interval, o) ==
    LET key == ApiHistoricalKey(Upper(sym), period, interval)
        cached == CacheGet(st, ok, up, key).val
        data == StockGetHistoricalData(st, o).val
    IN IF CacheHit(cached) THEN Responded(Returned(st, cached), FALSE, o, "200")
       ELSE IF ~SeriesNonEmpty(data)
         THEN Responded(Returned(st, ErrorBody("No data found")), TRUE, o, "404")
         ELSE Responded(Returned(CacheSet(st, ok, up, t, key, data,
                                          PyInt(ApiHistoricalTtl)).store,
                                 data),
                        TRUE, o, "200")

(***************************************************************************)
(* Requests to one provider service, one at a time.                        *)
(***************************************************************************)
\* the status of a call that is not an HTTP response
NoStatus == "none"

SvcDone(op, sym, res, provider) ==
    /\ svc_flip' = 1 - svc_flip
    /\ store' = res.store
    /\ svc_ret' = [op |-> op, sym |-> sym, val |-> res.val, raised |-> res.raised,
                   caught |-> res.caught, granted |-> res.granted, http |-> res.http,
                   upstream |-> res.upstream,
                   providers |-> IF res.http THEN <<provider>> ELSE <<>>,
                   status |-> IF "status" \in DOMAIN res THEN res.status ELSE NoStatus,
                   replaced |-> {k \in DOMAIN store \cap DOMAIN res.store :
                                   res.store[k] # store[k]}]
    /\ UNCHANGED <<client_ok, store_up, cache_flip, cache_ret, last_set>>
    /\ UNCHANGED <<clockVars, seqVars, concVars, extVars, svc_subject, svc_ticks>>

FhSvcDone(op, sym, res) ==
    /\ svc_subject = "finnhub"
    /\ total_calls + blocked_calls < MaxFhSvcCalls
    /\ SvcDone(op, sym, res, "finnhub")
    /\ call_timestamps' = res.lim.q
    /\ total_calls' = res.lim.total
    /\ blocked_calls' = res.lim.blocked
    /\ UNCHANGED <<fh_pc, fh_current_time, fh_tmp, fh_ret, fh_started, fh_granted>>
    /\ UNCHANGED avVars

AvSvcDone(op, sym, res) ==
    /\ svc_subject = IF op = "get_quote" THEN "alpha_vantage" ELSE "alpha_vantage_lookup"
    /\ daily_calls < MaxAvSvcCalls
    /\ SvcDone(op, sym, res, "alpha_vantage")
    /\ AvStore(res.lim)
    /\ UNCHANGED <<av_lock, av_pc, av_op, av_today, av_ret, av_started, av_window_grants>>
    /\ UNCHANGED fhVars

ApiSvcDone(op, sym, res) ==
    /\ svc_subject = "stock_data"
    /\ SvcDone(op, sym, res, "yfinance")
    /\ UNCHANGED <<fhVars, avVars>>

DoFhGetQuote(sym, o) ==
    FhSvcDone("get_quote", sym,
              FhGetQuote(store, client_ok, store_up, FhLimiter, now, sym, o))

DoFhGetCandles(sym, o) ==
    FhSvcDone("get_candles", sym,
              FhGetCandles(store, client_ok, store_up, FhLimiter, now, sym, o))

DoAvGetQuote(sym, o) ==
    AvSvcDone("get_quote", sym,
              AvGetQuote(store, client_ok, store_up, AvState, now, today, sym, o))

DoAvSearchSymbol(keywords, o) ==
    AvSvcDone("search_symbol", keywords,
              AvSearchSymbol(store, client_ok, store_up, AvState, now, today, keywords, o))

DoAvGetHistoricalData(sym, o) ==
    AvSvcDone("get_historical_data", sym,
              AvGetHistoricalData(store, client_ok, store_up, AvState, now, today, sym, o))

DoApiGetHistoricalData(sym, period, interval, o) ==
    ApiSvcDone("api_get_historical_data", sym,
               ApiGetHistoricalData(store, client_ok, store_up, now, sym, period,
                                    interval, o))

\* the clock steps that matter to a service: the limiter's minute, the fresh
\* TTL of its quotes, the stale TTL of its quotes
SvcSteps ==
    IF svc_subject = "finnhub"
      THEN {MinuteWindow, FhQuoteTtl, FhStaleTtl(FhQuoteTtl)}
      ELSE IF svc_subject = "alpha_vantage"
        THEN {MinuteWindow, AvQuoteTtl, AvStaleTtl(AvQuoteTtl)}
        ELSE IF svc_subject = "alpha_vantage_lookup"
          THEN {MinuteWindow, AvHistoricalTtl, AvHistoricalStaleTtl}
          ELSE {MinuteWindow, ApiHistoricalTtl}

\* time passes; Redis drops the keys whose time is up
SvcTick(step) ==
    /\ svc_ticks < MaxSvcTicks
    /\ svc_ticks' = svc_ticks + 1
    /\ now' = now + step
    /\ store' = Live(store, now')
    /\ UNCHANGED <<today, client_ok, store_up, cache_flip, cache_ret, last_set>>
    /\ UNCHANGED <<svc_subject, svc_flip, svc_ret>>
    /\ UNCHANGED <<fhVars, avVars, seqVars, concVars, extVars>>

\* the clock steps that move a quote across its fresh and its stale TTL
AgeSteps ==
    IF svc_subject = "finnhub"
      THEN {MinuteWindow, FhQuoteTtl, FhStaleTtl(FhQuoteTtl)}
      ELSE {MinuteWindow, AvQuoteTtl, AvStaleTtl(AvQuoteTtl)}

\* time passes while quotes are requested; Redis drops the keys whose time is up
QuoteAgeTick(step) ==
    /\ svc_ticks < MaxAgeTicks
    /\ svc_ticks' = svc_ticks + 1
    /\ now' = now + step
    /\ store' = Live(store, now')
    /\ UNCHANGED <<today, client_ok, store_up, cache_flip, cache_ret, last_set>>
    /\ UNCHANGED <<svc_subject, svc_flip, svc_ret>>
    /\ UNCHANGED <<fhVars, avVars, seqVars, concVars, extVars>>

\* Redis becomes unreachable, or reachable again
SvcStoreToggle ==
    /\ StoreToggle
    /\ UNCHANGED <<clockVars, fhVars, avVars, seqVars, svcVars, concVars, extVars>>

NoCall ==
    [op |-> "none", sym |-> "", val |-> PyNone, raised |-> FALSE, caught |-> FALSE,
     granted |-> FALSE, http |-> FALSE, upstream |-> "none", providers |-> <<>>,
     status |-> NoStatus, replaced |-> {}]

SvcInit ==
    /\ svc_subject \in SvcSubjects
    /\ svc_flip = 0
    /\ svc_ticks = 0
    /\ svc_ret = NoCall

(***************************************************************************)
(* Concurrent get_quote requests to one provider service, statement by     *)
(* statement (FinnhubService.get_quote lines 28-91, AlphaVantageService    *)
(* .get_quote lines 45-146).  A request reads the fresh key, calls the     *)
(* limiter, calls the upstream API, and writes the fresh and the stale     *)
(* key; another request can run between any two of these statements.  The *)
(* services keep no table of requests in flight and take no lock of their  *)
(* own: the only lock is the one inside AlphaVantageRateLimiter.           *)
(***************************************************************************)
\* two requests in flight at a time, each served by its own thread
RqThreadIds == {1, 2}
RqSubjects == {"finnhub", "alpha_vantage"}
RqSymbol == "AAPL"

RqKey == IF rq_subject = "finnhub" THEN FhQuoteKey(RqSymbol) ELSE AvQuoteKey(RqSymbol)

RqOutcomes == IF rq_subject = "finnhub" THEN FhQuoteOutcomes ELSE AvQuoteOutcomes

\* the payload carries no quote: "if not data.get('c')", 'Error Message',
\* 'Note', an empty 'Global Quote'
RqNoQuote(o) == o \in {"no_price", "error_message", "note", "empty"}

RqQuote(t) ==
    IF rq_subject = "finnhub" THEN FhQuote(RqSymbol, t) ELSE AvQuote(RqSymbol, t)

RqFreshTtl == IF rq_subject = "finnhub" THEN FhQuoteTtl ELSE AvQuoteTtl

RqStaleTtl ==
    IF rq_subject = "finnhub" THEN FhStaleTtl(FhQuoteTtl) ELSE AvStaleTtl(AvQuoteTtl)

NoResult == [val |-> PyNone, raised |-> FALSE]

RqGoto(t, l) ==
    /\ rq_pc' = [rq_pc EXCEPT ![t] = l]
    /\ UNCHANGED rq_res

\* return <val> / an exception leaving get_quote
RqReturn(t, r) ==
    /\ rq_pc' = [rq_pc EXCEPT ![t] = "idle"]
    /\ rq_res' = [rq_res EXCEPT ![t] = [val |-> r.val, raised |-> r.raised]]

\* what a request step leaves alone besides the cache, the limiters and the
\* requests themselves
RqFrame ==
    UNCHANGED <<clockVars, seqVars, svcVars, extVars, client_ok, store_up, cache_flip,
                cache_ret, last_set, rq_subject>>

\* a caller enters get_quote
RqStart(t) ==
    /\ rq_pc[t] = "idle"
    /\ rq_started < MaxRequests
    /\ rq_started' = rq_started + 1
    /\ rq_pc' = [rq_pc EXCEPT ![t] = "cache_get"]
    /\ rq_res' = [rq_res EXCEPT ![t] = NoResult]
    /\ rq_granted' = [rq_granted EXCEPT ![t] = FALSE]
    /\ UNCHANGED <<store, fhVars, avVars, rq_http>>
    /\ RqFrame

\* "if cached: return cached": where the request goes after reading the fresh key
RqAfterCache(cached) == IF CacheHit(cached) THEN "return" ELSE "limiter"

\* cached = self.cache.get(cache_key); if cached: return cached
RqCacheGet(t) ==
    /\ rq_pc[t] = "cache_get"
    /\ LET cached == CacheGet(store, client_ok, store_up, RqKey).val IN
         IF RqAfterCache(cached) = "return"
           THEN RqReturn(t, Returned(store, cached))
           ELSE RqGoto(t, "limiter")
    /\ UNCHANGED <<store, fhVars, avVars, rq_granted, rq_started, rq_http>>
    /\ RqFrame

\* Finnhub: the request enters self.limiter.can_make_call()
RqFhLimiterCall(t) ==
    /\ rq_subject = "finnhub"
    /\ rq_pc[t] = "limiter"
    /\ FhStart(t)
    /\ RqGoto(t, "in_limiter")
    /\ UNCHANGED <<store, avVars, rq_granted, rq_started, rq_http>>
    /\ RqFrame

RqAfterLimiterNever(granted) == "stale"

RqAfterLimiterAlways(granted) == "upstream"

\* "if not self.limiter.can_make_call():" / "if not self.rate_limiter.acquire():"
RqAfterLimiter(granted) == IF granted THEN "upstream" ELSE "stale"

\* Finnhub: can_make_call has returned (or raised, outside the try block)
RqFhLimiterReturn(t) ==
    /\ rq_subject = "finnhub"
    /\ rq_pc[t] = "in_limiter"
    /\ fh_pc[t] = "idle"
    /\ IF fh_ret[t] = "raise"
         THEN RqReturn(t, Raised(store)) /\ UNCHANGED rq_granted
         ELSE /\ RqGoto(t, RqAfterLimiter(fh_ret[t] = "true"))
              /\ rq_granted' = [rq_granted EXCEPT ![t] = (fh_ret[t] = "true")]
    /\ UNCHANGED <<store, fhVars, avVars, rq_started, rq_http>>
    /\ RqFrame

\* Alpha Vantage: the request enters self.rate_limiter.acquire()
RqAvLimiterCall(t) ==
    /\ rq_subject = "alpha_vantage"
    /\ rq_pc[t] = "limiter"
    /\ AvCall(t, "acquire")
    /\ RqGoto(t, "in_limiter")
    /\ UNCHANGED <<store, fhVars, rq_granted, rq_started, rq_http>>
    /\ RqFrame

\* Alpha Vantage: acquire releases the lock and returns
RqAvLimiterReturn(t) ==
    /\ rq_subject = "alpha_vantage"
    /\ rq_pc[t] = "in_limiter"
    /\ AvUnlock(t)
    /\ RqGoto(t, RqAfterLimiter(av_ret))
    /\ rq_granted' = [rq_granted EXCEPT ![t] = av_ret]
    /\ UNCHANGED <<store, fhVars, rq_started, rq_http>>
    /\ RqFrame

\* the stale lookup after a denial and in the except clause
RqStale(t) ==
    /\ rq_pc[t] = "stale"
    /\ RqReturn(t, IF rq_subject = "finnhub"
                     THEN FhStaleOr(store, client_ok, store_up, RqKey, PyNone)
                     ELSE AvStaleOr(store, client_ok, store_up, RqKey, PyNone))
    /\ UNCHANGED <<store, fhVars, avVars, rq_granted, rq_started, rq_http>>
    /\ RqFrame

\* requests.get(...), raise_for_status(), resp.json() and the building of the
\* quote: the blocking upstream call of this request
RqUpstream(t, o) ==
    /\ rq_pc[t] = "upstream"
    /\ rq_http' = rq_http + 1
    /\ IF UpstreamRaises(o) THEN RqGoto(t, "stale")
       ELSE IF RqNoQuote(o) THEN RqReturn(t, Returned(store, PyNone))
       ELSE /\ rq_pc' = [rq_pc EXCEPT ![t] = "write_fresh"]
            /\ rq_res' = [rq_res EXCEPT ![t] = [val |-> RqQuote(now), raised |-> FALSE]]
    /\ UNCHANGED <<store, fhVars, avVars, rq_granted, rq_started>>
    /\ RqFrame

\* cache.set(cache_key, quote, CACHE_TTL['quote'])
RqWriteFresh(t) ==
    /\ rq_pc[t] = "write_fresh"
    /\ store' = CacheSet(store, client_ok, store_up, now, RqKey, rq_res[t].val,
                         PyInt(RqFreshTtl)).store
    /\ RqGoto(t, "write_stale")
    /\ UNCHANGED <<fhVars, avVars, rq_granted, rq_started, rq_http>>
    /\ RqFrame

\* cache.set(cache_key + ":stale", quote, ...); return quote
RqWriteStale(t) ==
    /\ rq_pc[t] = "write_stale"
    /\ store' = CacheSet(store, client_ok, store_up, now, StaleKey(RqKey),
                         rq_res[t].val, PyInt(RqStaleTtl)).store
    /\ RqReturn(t, Returned(store, rq_res[t].val))
    /\ UNCHANGED <<fhVars, avVars, rq_granted, rq_started, rq_http>>
    /\ RqFrame

ConcInit ==
    /\ rq_pc = [t \in RqThreadIds |-> "idle"]
    /\ rq_res = [t \in RqThreadIds |-> NoResult]
    /\ rq_granted = [t \in RqThreadIds |-> FALSE]
    /\ rq_started = 0
    /\ rq_http = 0

(***************************************************************************)
(* The market endpoints of api/market.py over StockDataService and the     *)
(* cache: /api/market/indices and /api/market/movers.                      *)
(***************************************************************************)
\* indices_symbols of get_market_indices, in the order of the dict
IndexSymbols == <<"^GSPC", "^DJI", "^IXIC", "^RUT", "^VIX", "^NSEI", "^BSESN">>

\* the symbols yfinance has a quote for at one request
QuotedSets == {{}, {"^GSPC"}, {IndexSymbols[i] : i \in 1..Len(IndexSymbols)}}

\* request.args 'market' and 'limit' of the movers endpoint
Markets == {"US"}
LimitArgs == {"10", "60", "x"}

\* the change_percent of the symbols of the market at one request
MarketChanges == {<<5, -3, 0, 2, -7>>, <<0>>}

\* int(s) on the limit arguments above; -1 stands for ValueError
ParseInt(s) == IF s = "10" THEN 10 ELSE IF s = "60" THEN 60 ELSE -1

Min(a, b) == IF a <= b THEN a ELSE b

\* the JSON text of a list of integers
RECURSIVE JoinInts(_)
JoinInts(xs) ==
    IF xs = <<>> THEN ""
    ELSE IF Len(xs) = 1 THEN ToString(xs[1])
    ELSE ToString(xs[1]) \o ", " \o JoinInts(Tail(xs))

ListRepr(xs) == "[" \o JoinInts(xs) \o "]"

\* StockDataService.get_market_indices, lines 237-261: one get_quote per
\* symbol, the quotes that are not None in the order of the dict
GetMarketIndices(quoted) ==
    [val |-> PyList(SelectSeq(IndexSymbols, LAMBDA s : s \in quoted)),
     fetched |-> Len(IndexSymbols)]

\* StockDataService.get_top_gainers_losers, lines 263-283
GetTopGainersLosers(market, limit, changes) == [gainers |-> <<>>, losers |-> <<>>]

\* the dict of the movers as the endpoint caches and returns it
MoversValue(m) ==
    PyDict("str", <<"gainers", ListRepr(m.gainers), "losers", ListRepr(m.losers)>>)

IndicesKey == "market:indices"
MoversKey(market, limit) == "market:movers:" \o market \o ":" \o ToString(limit)

\* the outcome of a market endpoint call
MktResponded(st, val, status, fetched, m) ==
    [store |-> st, val |-> val, status |-> status, fetched |-> fetched,
     gainers |-> m.gainers, losers |-> m.losers]

NoMovers == [gainers |-> <<>>, losers |-> <<>>]

\* the endpoint /api/market/indices, api/market.py lines 22-45
ApiGetIndices(st, ok, up, t, quoted) ==
    LET cached == CacheGet(st, ok, up, IndicesKey).val
        indices == GetMarketIndices(quoted)
    IN IF CacheHit(cached) THEN MktResponded(st, cached, "200", 0, NoMovers)
       ELSE MktResponded(CacheSet(st, ok, up, t, IndicesKey, indices.val,
                                  PyInt(IndicesTtl)).store,
                         indices.val, "200", indices.fetched, NoMovers)

\* the endpoint /api/market/movers, api/market.py lines 48-74
ApiGetMovers(st, ok, up, t, market, arg, changes) ==
    IF ParseInt(arg) < 0
      THEN MktResponded(st, ErrorBody("Failed to get market movers"), "500", 0, NoMovers)
      ELSE LET limit == Min(ParseInt(arg), MoversLimitCap)
               key == MoversKey(market, limit)
               cached == CacheGet(st, ok, up, key).val
               movers == GetTopGainersLosers(market, limit, changes)
           IN IF CacheHit(cached) THEN MktResponded(st, cached, "200", 0, NoMovers)
              ELSE MktResponded(CacheSet(st, ok, up, t, key, MoversValue(movers),
                                         PyInt(MoversTtl)).store,
                                MoversValue(movers), "200", 0, movers)

MktDone(op, market, limit, changes, res) ==
    /\ mk_flip' = 1 - mk_flip
    /\ store' = res.store
    /\ mk_ret' = [op |-> op, market |-> market, limit |-> limit, changes |-> changes,
                  gainers |-> res.gainers, losers |-> res.losers, val |-> res.val,
                  status |-> res.status, fetched |-> res.fetched]
    /\ UNCHANGED <<client_ok, store_up, cache_flip, cache_ret, last_set, mk_ticks>>
    /\ UNCHANGED <<clockVars, fhVars, avVars, seqVars, svcVars, concVars, taVars, barVars, decoVars>>

DoApiGetIndices(quoted) ==
    MktDone("api_get_indices", "", 0, <<>>,
            ApiGetIndices(store, client_ok, store_up, now, quoted))

DoApiGetMovers(market, arg, changes) ==
    MktDone("api_get_movers", market, Min(ParseInt(arg), MoversLimitCap), changes,
            ApiGetMovers(store, client_ok, store_up, now, market, arg, changes))

\* a direct call of the service method
DoGetTopGainersLosers(market, limit, changes) ==
    LET m == GetTopGainersLosers(market, limit, changes)
    IN MktDone("get_top_gainers_losers", market, limit, changes,
               MktResponded(store, MoversValue(m), NoStatus, 0, m))

\* the clock steps that matter to the endpoints
MktSteps == {TickStep, IndicesTtl, MoversTtl}

\* time passes; Redis drops the keys whose time is up
MktTick(step) ==
    /\ mk_ticks < MaxMktTicks
    /\ mk_ticks' = mk_ticks + 1
    /\ now' = now + step
    /\ store' = Live(store, now')
    /\ UNCHANGED <<today, client_ok, store_up, cache_flip, cache_ret, last_set>>
    /\ UNCHANGED <<mk_flip, mk_ret>>
    /\ UNCHANGED <<fhVars, avVars, seqVars, svcVars, concVars, taVars, barVars, decoVars>>

\* Redis becomes unreachable, or reachable again
MktStoreToggle ==
    /\ StoreToggle
    /\ UNCHANGED <<clockVars, fhVars, avVars, seqVars, svcVars, concVars, extVars>>

NoMktCall ==
    [op |-> "none", market |-> "", limit |-> 0, changes |-> <<>>, gainers |-> <<>>,
     losers |-> <<>>, val |-> PyNone, status |-> NoStatus, fetched |-> 0]

MktInit ==
    /\ mk_flip = 0
    /\ mk_ticks = 0
    /\ mk_ret = NoMktCall

(***************************************************************************)
(* services/technical_analysis.py: TechnicalAnalysisService.  The          *)
(* indicators are pure functions of a price series.  A float is a ratio    *)
(* num/den of integers: means are exact, the results of ewm() and of       *)
(* np.std are kept to 1/Scale, round(x, 2) gives hundredths.               *)
(***************************************************************************)
TaNone == [none |-> TRUE, num |-> 0, den |-> 1]
Ratio(n, d) == [none |-> FALSE, num |-> n, den |-> d]

\* sum(xs), by halves
RECURSIVE Sum(_)
Sum(xs) ==
    IF xs = <<>> THEN 0
    ELSE IF Len(xs) = 1 THEN xs[1]
    ELSE LET h == Len(xs) \div 2
         IN Sum(SubSeq(xs, 1, h)) + Sum(SubSeq(xs, h + 1, Len(xs)))

\* xs[-n:] for 1 <= n <= len(xs)
Last(xs, n) == SubSeq(xs, Len(xs) - n + 1, Len(xs))

Abs(x) == IF x < 0 THEN -x ELSE x
Max(a, b) == IF a >= b THEN a ELSE b

\* n/d to the nearest integer, d > 0
RoundDiv(n, d) == (2 * n + d) \div (2 * d)

\* round(x, 2) of the ratio n/d, in hundredths
Round2(n, d) == Ratio(RoundDiv(100 * n, d), 100)

\* the largest r in lo..hi with r * r <= n
RECURSIVE IsqrtIn(_, _, _)
IsqrtIn(n, lo, hi) ==
    IF lo >= hi THEN lo
    ELSE LET mid == (lo + hi + 1) \div 2
         IN IF mid * mid <= n THEN IsqrtIn(n, mid, hi) ELSE IsqrtIn(n, lo, mid - 1)

Isqrt(n) == IsqrtIn(n, 0, Min(n, 46340))

\* calculate_sma, lines 13-28
CalculateSma(prices, period) ==
    IF Len(prices) < period THEN TaNone
    ELSE Ratio(Sum(Last(prices, period)), period)

\* Series.ewm(span, adjust=False).mean() over values in units of 1/Scale:
\* y[0] = x[0], y[t] = (1 - a) y[t-1] + a x[t] with a = 2 / (span + 1).
\* EwmRun continues the means after the mean y0, by halves of xs.
RECURSIVE EwmRun(_, _, _)
EwmRun(xs, y0, span) ==
    IF Len(xs) = 1 THEN <<(2 * xs[1] + (span - 1) * y0) \div (span + 1)>>
    ELSE LET h == Len(xs) \div 2
             left == EwmRun(SubSeq(xs, 1, h), y0, span)
         IN left \o EwmRun(SubSeq(xs, h + 1, Len(xs)), left[h], span)

EwmMean(xs, span) ==
    IF Len(xs) <= 1 THEN xs ELSE <<xs[1]>> \o EwmRun(Tail(xs), xs[1], span)

Scaled(prices) == [i \in 1..Len(prices) |-> prices[i] * Scale]

\* calculate_ema, lines 30-47
CalculateEma(prices, period) ==
    IF Len(prices) < period THEN TaNone
    ELSE LET ema == EwmMean(Scaled(prices), period)
         IN Ratio(ema[Len(ema)], Scale)

RsiValueRatio(gain, loss) ==
    IF loss = 0 THEN Ratio(100, 1) ELSE Round2(100 * gain, loss)

\* lines 75-81 with avg_gain = gain / period, avg_loss = loss / period:
\* 100 - 100 / (1 + rs) = 100 gain / (gain + loss)
RsiValue(gain, loss) ==
    IF loss = 0 THEN Ratio(100, 1) ELSE Round2(100 * gain, gain + loss)

\* np.diff(prices)
Diff(prices) == [i \in 1..(Len(prices) - 1) |-> prices[i + 1] - prices[i]]

\* calculate_rsi, lines 49-81
CalculateRsi(prices, period) ==
    IF Len(prices) < period + 1 THEN TaNone
    ELSE LET deltas == Last(Diff(prices), period)
             gains == [i \in 1..period |-> IF deltas[i] > 0 THEN deltas[i] ELSE 0]
             losses == [i \in 1..period |-> IF deltas[i] < 0 THEN -deltas[i] ELSE 0]
         IN RsiValue(Sum(gains), Sum(losses))

\* a dict result: None, or the values by key
NoDict == [none |-> TRUE, items |-> <<>>]
DictOf(items) == [none |-> FALSE, items |-> items]

\* calculate_macd, lines 83-124
CalculateMacd(prices, fast_period, slow_period, signal_period) ==
    IF Len(prices) < slow_period THEN NoDict
    ELSE LET ema_fast == EwmMean(Scaled(prices), fast_period)
             ema_slow == EwmMean(Scaled(prices), slow_period)
             macd_line == [i \in 1..Len(prices) |-> ema_fast[i] - ema_slow[i]]
             signal_line == EwmMean(macd_line, signal_period)
             n == Len(prices)
         IN DictOf("macd" :> Round2(macd_line[n], Scale)
                   @@ "signal" :> Round2(signal_line[n], Scale)
                   @@ "histogram" :> Round2(macd_line[n] - signal_line[n], Scale))

\* np.std of the window, in hundredths: sqrt(sum((x - mean)^2) / n), with
\* n x - sum(x) the deviation of x times n
StdHundredths(window) ==
    LET n == Len(window)
        devs == [i \in 1..n |-> (n * window[i] - Sum(window)) * (n * window[i] - Sum(window))]
    IN Isqrt((Sum(devs) * 10000) \div (n * n * n))

\* calculate_bollinger_bands, lines 126-160
CalculateBollingerBands(prices, period, std_dev) ==
    IF Len(prices) < period THEN NoDict
    ELSE LET window == Last(prices, period)
             std == StdHundredths(window)
         IN DictOf("upper" :> Round2(100 * Sum(window) + period * std_dev * std,
                                     100 * period)
                   @@ "middle" :> Round2(Sum(window), period)
                   @@ "lower" :> Round2(100 * Sum(window) - period * std_dev * std,
                                        100 * period))

\* the outcome of an indicator call
TaReturned(v) == [val |-> v, raised |-> FALSE]
TaRaised == [val |-> TaNone, raised |-> TRUE]

\* high[i] and low[i] exist for every i of "for i in range(1, len(close))"
\* (a list index out of range raises IndexError)
AtrInRange(high, low, close) == Len(close) <= Len(high) /\ Len(close) <= Len(low)

\* calculate_atr, lines 162-198
CalculateAtr(high, low, close, period) ==
    IF Len(high) < period + 1 \/ Len(low) < period + 1 \/ Len(close) < period + 1
      THEN TaReturned(TaNone)
    ELSE IF ~AtrInRange(high, low, close) THEN TaRaised
    ELSE LET tr_list ==
               [i \in 1..(Len(close) - 1) |->
                  Max(high[i + 1] - low[i + 1],
                      Max(Abs(high[i + 1] - close[i]), Abs(low[i + 1] - close[i])))]
         IN IF Len(tr_list) < period THEN TaReturned(TaNone)
            ELSE TaReturned(Round2(Sum(Last(tr_list, period)), period))

AboveNoMargin(a, b) == a.num * b.den > b.num * a.den

\* a > b * 1.02
Above(a, b) == a.num * b.den * 100 > b.num * a.den * 102

\* a < b * 0.98
Below(a, b) == a.num * b.den * 100 < b.num * a.den * 98

\* identify_trend, lines 200-227
IdentifyTrend(prices, sma_short, sma_long) ==
    IF Len(prices) < sma_long THEN "NEUTRAL"
    ELSE LET sma_short_val == CalculateSma(prices, sma_short)
             sma_long_val == CalculateSma(prices, sma_long)
         IN IF sma_short_val.none \/ sma_long_val.none THEN "NEUTRAL"
            ELSE IF Above(sma_short_val, sma_long_val) THEN "BULLISH"
            ELSE IF Below(sma_short_val, sma_long_val) THEN "BEARISH"
            ELSE "NEUTRAL"

\* the bars of a series of closes: d['high'], d['low'] by d['close']
HighOf(closes) == [i \in 1..Len(closes) |-> closes[i] + 1]
LowOf(closes) == [i \in 1..Len(closes) |-> closes[i] - 1]

\* indicators.update(macd_data) / indicators['bb_...'] = bb_data[...]
MacdItems(macd_data) == IF macd_data.none THEN <<>> ELSE macd_data.items

BollingerItems(bb_data) ==
    IF bb_data.none THEN <<>>
    ELSE "bb_upper" :> bb_data.items["upper"]
         @@ "bb_middle" :> bb_data.items["middle"]
         @@ "bb_lower" :> bb_data.items["lower"]

\* calculate_all_indicators, lines 229-278, on the bars of closes: the
\* numeric entries by key, and the entry 'trend' ("" when absent)
CalculateAllIndicators(closes) ==
    IF closes = <<>> THEN [items |-> <<>>, trend |-> ""]
    ELSE [items |->
            "sma_20" :> CalculateSma(closes, SmaShortPeriod)
            @@ "sma_50" :> CalculateSma(closes, SmaMidPeriod)
            @@ "sma_200" :> CalculateSma(closes, SmaLongPeriod)
            @@ "ema_12" :> CalculateEma(closes, EmaFastPeriod)
            @@ "ema_26" :> CalculateEma(closes, EmaSlowPeriod)
            @@ "rsi_14" :> CalculateRsi(closes, RsiPeriod)
            @@ MacdItems(CalculateMacd(closes, MacdFast, MacdSlow, MacdSignal))
            @@ BollingerItems(CalculateBollingerBands(closes, BollingerPeriod,
                                                      BollingerStdDev))
            @@ "atr_14" :> CalculateAtr(HighOf(closes), LowOf(closes), closes,
                                        AtrPeriod).val,
          trend |-> IdentifyTrend(closes, TrendShort, TrendLong)]

(***************************************************************************)
(* Calls of the indicators on one price series.                            *)
(***************************************************************************)
\* every series of at most MaxLen prices in 1..MaxPrice
RECURSIVE SeriesOfLen(_)
SeriesOfLen(n) ==
    IF n = 0 THEN {<<>>}
    ELSE {Append(s, p) : s \in SeriesOfLen(n - 1), p \in 1..MaxPrice}

ShortSeries == UNION {SeriesOfLen(n) : n \in 0..MaxLen}

\* series as long as the built-in periods ask for, of four shapes
LongLengths ==
    {EmaFastPeriod, RsiPeriod + 1, TrendShort, MacdSlow, TrendLong, SmaLongPeriod}
Shapes == {"flat", "zigzag", "rise", "drop"}

ShapedPrice(i, n, shape) ==
    IF shape = "flat" THEN 100
    ELSE IF shape = "zigzag" THEN 100 + (i % 2)
    ELSE IF shape = "rise" THEN (IF 2 * i > n THEN 106 ELSE 100)
    ELSE (IF 2 * i > n THEN 100 ELSE 106)

LongSeries == {[i \in 1..n |-> ShapedPrice(i, n, shape)] : n \in LongLengths, shape \in Shapes}

\* the period arguments of a call: small ones, and the default of the method
TaPeriods(default) == (1..MaxPeriod) \cup {default}

\* the last bars a caller's high, low or close list falls short by
Trims == 0..MaxTrim
Trim(xs, k) == SubSeq(xs, 1, Len(xs) - k)

NoTaCall ==
    [op |-> "none", args |-> <<>>, val |-> TaNone, dict |-> NoDict, trend |-> "",
     raised |-> FALSE]

\* a caller passes the series to an indicator and holds the result
TaDone(op, args, val, dict, trend, raised) ==
    /\ ta_ret.op = "none"
    /\ ta_ret' = [op |-> op, args |-> args, val |-> val, dict |-> dict,
                  trend |-> trend, raised |-> raised]
    /\ UNCHANGED ta_series
    /\ UNCHANGED <<clockVars, fhVars, avVars, seqVars, cacheVars, svcVars, concVars,
                   mktVars, barVars, decoVars>>

DoCalculateSma(period) ==
    TaDone("calculate_sma", <<period>>, CalculateSma(ta_series, period), NoDict, "",
           FALSE)

DoCalculateEma(period) ==
    TaDone("calculate_ema", <<period>>, CalculateEma(ta_series, period), NoDict, "",
           FALSE)

DoCalculateRsi(period) ==
    TaDone("calculate_rsi", <<period>>, CalculateRsi(ta_series, period), NoDict, "",
           FALSE)

DoCalculateMacd(fast, slow, signal) ==
    TaDone("calculate_macd", <<fast, slow, signal>>, TaNone,
           CalculateMacd(ta_series, fast, slow, signal), "", FALSE)

DoCalculateBollingerBands(period) ==
    TaDone("calculate_bollinger_bands", <<period>>, TaNone,
           CalculateBollingerBands(ta_series, period, BollingerStdDev), "", FALSE)

\* the three lists fall short of the bars of the series by th, tl and tc
DoCalculateAtr(period, th, tl, tc) ==
    LET high == Trim(HighOf(ta_series), Min(th, Len(ta_series)))
        low == Trim(LowOf(ta_series), Min(tl, Len(ta_series)))
        close == Trim(ta_series, Min(tc, Len(ta_series)))
        r == CalculateAtr(high, low, close, period)
    IN TaDone("calculate_atr", <<period, Len(high), Len(low), Len(close)>>, r.val,
              NoDict, "", r.raised)

DoIdentifyTrend(sma_short, sma_long) ==
    TaDone("identify_trend", <<sma_short, sma_long>>, TaNone, NoDict,
           IdentifyTrend(ta_series, sma_short, sma_long), FALSE)

DoCalculateAllIndicators ==
    LET r == CalculateAllIndicators(ta_series)
    IN TaDone("calculate_all_indicators", <<>>, TaNone, DictOf(r.items), r.trend, FALSE)

\* the caller is done with the result
TaTakeResult ==
    /\ ta_ret.op # "none"
    /\ ta_ret' = NoTaCall
    /\ UNCHANGED ta_series
    /\ UNCHANGED <<clockVars, fhVars, avVars, seqVars, cacheVars, svcVars, concVars,
                   mktVars, barVars, decoVars>>

\* no series under analysis
TaIdle ==
    /\ ta_series = <<>>
    /\ ta_ret = NoTaCall

TaInit ==
    /\ ta_series \in ShortSeries \cup LongSeries
    /\ ta_ret = NoTaCall

(***************************************************************************)
(* The historical payloads a provider accepts, converted into bars.        *)
(***************************************************************************)
\* every payload of at most MaxBars entries on the days 1..MaxBarDay
RECURSIVE PayloadsOfLen(_)
PayloadsOfLen(n) ==
    IF n = 0 THEN {<<>>}
    ELSE {Append(s, day) : s \in PayloadsOfLen(n - 1), day \in 1..MaxBarDay}

Payloads == UNION {PayloadsOfLen(n) : n \in 0..MaxBars}

NoConversion == [op |-> "none", days |-> <<>>, val |-> EmptyList]

BarsDone(op, days) ==
    /\ bar_ret.op = "none"
    /\ bar_ret' = [op |-> op, days |-> days, val |-> PyList(Dates(days))]
    /\ UNCHANGED bar_payload
    /\ UNCHANGED <<clockVars, fhVars, avVars, seqVars, cacheVars, svcVars, concVars,
                   mktVars, taVars, decoVars>>

\* FinnhubService.get_candles on a payload with s = 'ok'
DoFhHistorical == BarsDone("get_candles", FhHistorical(bar_payload))

\* AlphaVantageService.get_historical_data on a payload with a time series
DoAvHistoricalData == BarsDone("get_historical_data", AvHistoricalData(bar_payload))

\* the caller is done with the bars
BarsTakeResult ==
    /\ bar_ret.op # "none"
    /\ bar_ret' = NoConversion
    /\ UNCHANGED bar_payload
    /\ UNCHANGED <<clockVars, fhVars, avVars, seqVars, cacheVars, svcVars, concVars,
                   mktVars, taVars, decoVars>>

\* no payload under conversion
BarsIdle ==
    /\ bar_payload = <<>>
    /\ bar_ret = NoConversion

BarsInit ==
    /\ bar_payload \in Payloads
    /\ bar_ret = NoConversion

(***************************************************************************)
(* cache_service.cached(key_prefix, timeout): the wrapper it puts around a *)
(* function, lines 179-196.                                                *)
(***************************************************************************)
\* positional arguments: [kind, text], text being str(arg)
ArgStr(s) == [kind |-> "str", text |-> s]
ArgInt(n) == [kind |-> "int", text |-> ToString(n)]
ArgList(s) == [kind |-> "list", text |-> s]

\* the argument lists the wrapped function is called with
DecoArgLists ==
    {<<ArgStr("AAPL")>>, <<ArgStr("MSFT")>>, <<ArgStr("AAPL"), ArgInt(5)>>,
     <<ArgStr("AAPL"), ArgList("[1]")>>}

\* the key_prefix of the decorator's usage, line 167
DecoPrefix == "stock_quote"

\* lines 183-186: isinstance(arg, (str, int, float))
KeyPart(arg) == arg.kind \in {"str", "int", "float"}

\* lines 181-193: ":".join([key_prefix] + [str(arg) for the scalar args])
RECURSIVE CachedKey(_, _)
CachedKey(prefix, args) ==
    IF args = <<>> THEN prefix
    ELSE CachedKey(IF KeyPart(Head(args)) THEN prefix \o ":" \o Head(args).text
                   ELSE prefix,
                   Tail(args))

\* what the wrapped function returns when invoked with args at time t
FuncResult(args, t) == [args |-> args, at |-> t]

\* wrapper(*args), lines 179-196: the key is built, then the wrapped
\* function is invoked and its result returned; the cache is neither read
\* nor written
CachedWrapper(prefix, timeout, args, t) ==
    [key |-> CachedKey(prefix, args), val |-> FuncResult(args, t), invoked |-> TRUE]

NoInvocation == [at |-> -1, val |-> FuncResult(<<>>, -1)]

NoDecoCall == [op |-> "none", args |-> <<>>, key |-> "", val |-> FuncResult(<<>>, -1)]

\* a call of the wrapped function with the positional arguments args
DoCachedCall(args) ==
    /\ dc_calls < MaxDecoCalls
    /\ dc_calls' = dc_calls + 1
    /\ LET r == CachedWrapper(DecoPrefix, DecoTimeout, args, now) IN
         /\ dc_ret' = [op |-> "call", args |-> args, key |-> r.key, val |-> r.val]
         /\ dc_invoked' = IF r.invoked THEN dc_invoked + 1 ELSE dc_invoked
         /\ dc_seen' = IF r.invoked
                         THEN [dc_seen EXCEPT ![args] = [at |-> now, val |-> r.val]]
                         ELSE dc_seen
    /\ UNCHANGED <<clockVars, fhVars, avVars, seqVars, cacheVars, svcVars, concVars,
                   mktVars, taVars, barVars>>

DecoInit ==
    /\ dc_calls = 0
    /\ dc_invoked = 0
    /\ dc_seen = [a \in DecoArgLists |-> NoInvocation]
    /\ dc_ret = NoDecoCall

ExtInit == MktInit /\ TaIdle /\ BarsIdle /\ DecoInit

(***************************************************************************)
(* Specifications.                                                         *)
(***************************************************************************)
vars == <<clockVars, fhVars, avVars, seqVars, restVars>>

ClockInit ==
    /\ now = 0
    /\ today = 0

\* ---- SpecFh: threads inside FinnhubRateLimiter.can_make_call
InitFh ==
    /\ ClockInit
    /\ FhInit
    /\ AvInit
    /\ daily_calls = 0
    /\ SeqInit
    /\ seq_subject = "finnhub"
    /\ CacheInit
    /\ client_ok = TRUE
    /\ SvcInit
    /\ ConcInit
    /\ ExtInit
    /\ rq_subject = "finnhub"
    /\ svc_subject = "finnhub"

FhFrame == UNCHANGED <<clockVars, avVars, seqVars, restVars>>

NextFh ==
    \/ Tick /\ UNCHANGED <<fhVars, avVars, seqVars, restVars>>
    \/ \E t \in FhThreadIds : FhStart(t) /\ FhFrame
    \/ \E t \in FhThreadIds : FhWhileNonEmpty(t) /\ FhFrame
    \/ \E t \in FhThreadIds : FhWhileHead(t) /\ FhFrame
    \/ \E t \in FhThreadIds : FhPopleft(t) /\ FhFrame
    \/ \E t \in FhThreadIds : FhCheck(t) /\ FhFrame
    \/ \E t \in FhThreadIds : FhAppend(t) /\ FhFrame
    \/ \E t \in FhThreadIds : FhTotalLoad(t) /\ FhFrame
    \/ \E t \in FhThreadIds : FhTotalStore(t) /\ FhFrame
    \/ \E t \in FhThreadIds : FhBlockedLoad(t) /\ FhFrame
    \/ \E t \in FhThreadIds : FhBlockedStore(t) /\ FhFrame
    \/ \E t \in FhThreadIds : FhWaitTime(t) /\ FhFrame
    \* a further caller runs get_stats between two statements of the others
    \/ seq_calls < MaxFhStatsCalls /\ SeqFhGetStats

SpecFh == InitFh /\ [][NextFh]_vars

\* ---- SpecAv: threads on one AlphaVantageRateLimiter
InitAv ==
    /\ ClockInit
    /\ FhInit
    /\ AvInit
    /\ SeqInit
    /\ seq_subject = "alpha_vantage"
    /\ CacheInit
    /\ client_ok = TRUE
    /\ SvcInit
    /\ ConcInit
    /\ ExtInit
    /\ rq_subject = "finnhub"
    /\ svc_subject = "finnhub"

AvFrame == UNCHANGED <<clockVars, fhVars, seqVars, restVars>>

NextAv ==
    \/ Tick /\ UNCHANGED <<fhVars, avVars, seqVars, restVars>>
    \/ NewDay /\ UNCHANGED <<fhVars, avVars, seqVars, restVars>>
    \/ \E t \in AvThreadIds, op \in AvOps : AvCall(t, op) /\ AvFrame
    \/ \E t \in AvThreadIds : AvLockAcquire(t) /\ AvFrame
    \/ \E t \in AvThreadIds : AvResetMinute(t) /\ AvFrame
    \/ \E t \in AvThreadIds : AvResetDay(t) /\ AvFrame
    \/ \E t \in AvThreadIds : AvCheck(t) /\ AvFrame
    \/ \E t \in AvThreadIds : AvTakeToken(t) /\ AvFrame
    \/ \E t \in AvThreadIds : AvCountDaily(t) /\ AvFrame
    \/ \E t \in AvThreadIds : AvUnlock(t) /\ AvFrame

SpecAv == InitAv /\ [][NextAv]_vars

\* ---- SpecSeq: one caller at a time on the Finnhub or the Alpha Vantage limiter
InitSeq ==
    /\ ClockInit
    /\ FhInit
    /\ AvInit
    /\ SeqInit
    /\ seq_subject \in {"finnhub", "alpha_vantage"}
    /\ CacheInit
    /\ client_ok = TRUE
    /\ SvcInit
    /\ ConcInit
    /\ ExtInit
    /\ rq_subject = "finnhub"
    /\ svc_subject = "finnhub"

NextSeq ==
    \/ Tick /\ UNCHANGED <<fhVars, avVars, seqVars, restVars>>
    \/ NewDay /\ UNCHANGED <<fhVars, avVars, seqVars, restVars>>
    \/ SeqFhCanMakeCall
    \/ SeqFhGetStats
    \/ SeqAvAcquire
    \/ SeqAvCanMakeRequest
    \/ SeqAvGetStats

SpecSeq == InitSeq /\ [][NextSeq]_vars

\* ---- SpecCache: CacheService calls, Redis going down and up, keys expiring
InitCache ==
    /\ ClockInit
    /\ FhInit
    /\ AvInit
    /\ daily_calls = 0
    /\ SeqInit
    /\ seq_subject = "finnhub"
    /\ CacheInit
    /\ SvcInit
    /\ ConcInit
    /\ ExtInit
    /\ rq_subject = "finnhub"
    /\ svc_subject = "finnhub"

CacheFrame == UNCHANGED <<clockVars, fhVars, avVars, seqVars, svcVars, concVars, extVars>>

NextCache ==
    \/ CacheTick /\ UNCHANGED <<fhVars, avVars, seqVars, svcVars, concVars, extVars>>
    \/ StoreToggle /\ CacheFrame
    \/ \E k \in CacheKeys : DoGet(k) /\ CacheFrame
    \/ \E k \in CacheKeys, v \in CacheValues, timeout \in CacheTimeouts :
          DoSet(k, v, timeout) /\ CacheFrame
    \/ \E k \in CacheKeys : DoDelete(k) /\ CacheFrame
    \/ \E p \in CachePatterns : DoDeletePattern(p) /\ CacheFrame
    \/ \E k \in CacheKeys : DoExists(k) /\ CacheFrame
    \/ \E k \in CacheKeys : DoGetTtl(k) /\ CacheFrame

SpecCache == InitCache /\ [][NextCache]_vars

\* ---- SpecSvc: requests to one provider service, the clock, Redis down and up
InitSvc ==
    /\ ClockInit
    /\ FhInit
    /\ AvInit
    /\ daily_calls = 0
    /\ SeqInit
    /\ seq_subject = "finnhub"
    /\ CacheInit
    /\ SvcInit
    /\ ConcInit
    /\ ExtInit
    /\ rq_subject = "finnhub"

NextSvc ==
    \/ \E step \in SvcSteps : SvcTick(step)
    \/ SvcStoreToggle
    \/ \E sym \in Symbols, o \in FhQuoteOutcomes : DoFhGetQuote(sym, o)
    \/ \E sym \in Symbols, o \in FhCandlesOutcomes : DoFhGetCandles(sym, o)
    \/ \E sym \in Symbols, o \in AvQuoteOutcomes : DoAvGetQuote(sym, o)
    \/ \E keywords \in Keywords, o \in AvSearchOutcomes : DoAvSearchSymbol(keywords, o)
    \/ \E sym \in Symbols, o \in AvHistoricalOutcomes : DoAvGetHistoricalData(sym, o)
    \/ \E sym \in Symbols, period \in Periods, interval \in Intervals,
          o \in YfHistoryOutcomes : DoApiGetHistoricalData(sym, period, interval, o)

SpecSvc == InitSvc /\ [][NextSvc]_vars

\* ---- SpecConc: threads inside get_quote of one provider service
InitConc ==
    /\ ClockInit
    /\ FhInit
    /\ AvInit
    /\ daily_calls = 0
    /\ SeqInit
    /\ seq_subject = "finnhub"
    /\ CacheInit
    /\ client_ok = TRUE
    /\ SvcInit
    /\ svc_subject = "finnhub"
    /\ ConcInit
    /\ ExtInit
    /\ rq_subject \in RqSubjects

\* the steps of thread t
RqNextOf(t) ==
    \/ RqStart(t)
    \/ RqCacheGet(t)
    \/ RqFhLimiterCall(t)
    \/ FhWhileNonEmpty(t) /\ FhFrame
    \/ FhWhileHead(t) /\ FhFrame
    \/ FhPopleft(t) /\ FhFrame
    \/ FhCheck(t) /\ FhFrame
    \/ FhAppend(t) /\ FhFrame
    \/ FhTotalLoad(t) /\ FhFrame
    \/ FhTotalStore(t) /\ FhFrame
    \/ FhBlockedLoad(t) /\ FhFrame
    \/ FhBlockedStore(t) /\ FhFrame
    \/ FhWaitTime(t) /\ FhFrame
    \/ RqFhLimiterReturn(t)
    \/ RqAvLimiterCall(t)
    \/ AvLockAcquire(t) /\ AvFrame
    \/ AvResetMinute(t) /\ AvFrame
    \/ AvResetDay(t) /\ AvFrame
    \/ AvCheck(t) /\ AvFrame
    \/ AvTakeToken(t) /\ AvFrame
    \/ AvCountDaily(t) /\ AvFrame
    \/ RqAvLimiterReturn(t)
    \/ RqStale(t)
    \/ \E o \in RqOutcomes : RqUpstream(t, o)
    \/ RqWriteFresh(t)
    \/ RqWriteStale(t)

NextConc ==
    \/ Tick /\ UNCHANGED <<fhVars, avVars, seqVars, restVars>>
    \/ \E t \in RqThreadIds : RqNextOf(t)

SpecConc == InitConc /\ [][NextConc]_vars

\* ---- SpecMkt: requests to the market endpoints, the clock, Redis down and up
InitMkt ==
    /\ ClockInit
    /\ FhInit
    /\ AvInit
    /\ daily_calls = 0
    /\ SeqInit
    /\ seq_subject = "finnhub"
    /\ CacheInit
    /\ SvcInit
    /\ svc_subject = "finnhub"
    /\ ConcInit
    /\ rq_subject = "finnhub"
    /\ ExtInit

\* the limits a caller of the service method passes
MoversLimits == {2}

NextMkt ==
    \/ \E step \in MktSteps : MktTick(step)
    \/ MktStoreToggle
    \/ \E quoted \in QuotedSets : DoApiGetIndices(quoted)
    \/ \E market \in Markets, arg \in LimitArgs, changes \in MarketChanges :
          DoApiGetMovers(market, arg, changes)
    \/ \E market \in Markets, limit \in MoversLimits, changes \in MarketChanges :
          DoGetTopGainersLosers(market, limit, changes)

SpecMkt == InitMkt /\ [][NextMkt]_vars

\* ---- SpecTa: calls of the indicators on a price series
InitTa ==
    /\ ClockInit
    /\ FhInit
    /\ AvInit
    /\ daily_calls = 0
    /\ SeqInit
    /\ seq_subject = "finnhub"
    /\ CacheInit
    /\ client_ok = TRUE
    /\ SvcInit
    /\ svc_subject = "finnhub"
    /\ ConcInit
    /\ rq_subject = "finnhub"
    /\ MktInit
    /\ TaInit
    /\ BarsIdle
    /\ DecoInit

NextTa ==
    \/ \E period \in TaPeriods(SmaShortPeriod) : DoCalculateSma(period)
    \/ \E period \in TaPeriods(EmaFastPeriod) : DoCalculateEma(period)
    \/ \E period \in TaPeriods(RsiPeriod) : DoCalculateRsi(period)
    \/ \E slow \in TaPeriods(MacdSlow) :
          DoCalculateMacd(IF slow = MacdSlow THEN MacdFast ELSE 1, slow,
                          IF slow = MacdSlow THEN MacdSignal ELSE 2)
    \/ \E period \in TaPeriods(BollingerPeriod) : DoCalculateBollingerBands(period)
    \/ \E period \in TaPeriods(AtrPeriod), th \in Trims, tl \in Trims, tc \in Trims :
          DoCalculateAtr(period, th, tl, tc)
    \/ \E sma_short \in TaPeriods(TrendShort), sma_long \in TaPeriods(TrendLong) :
          DoIdentifyTrend(sma_short, sma_long)
    \/ DoCalculateAllIndicators
    \/ TaTakeResult

SpecTa == InitTa /\ [][NextTa]_vars

\* ---- SpecBars: conversions of a historical payload
InitBars ==
    /\ ClockInit
    /\ FhInit
    /\ AvInit
    /\ daily_calls = 0
    /\ SeqInit
    /\ seq_subject = "finnhub"
    /\ CacheInit
    /\ client_ok = TRUE
    /\ SvcInit
    /\ svc_subject = "finnhub"
    /\ ConcInit
    /\ rq_subject = "finnhub"
    /\ MktInit
    /\ TaIdle
    /\ BarsInit
    /\ DecoInit

NextBars ==
    \/ DoFhHistorical
    \/ DoAvHistoricalData
    \/ BarsTakeResult

SpecBars == InitBars /\ [][NextBars]_vars

\* ---- SpecAge: get_quote requests to one provider service while the clock
\* moves the cached quotes across their fresh and stale TTLs
InitAge ==
    /\ ClockInit
    /\ FhInit
    /\ AvInit
    /\ daily_calls = 0
    /\ SeqInit
    /\ seq_subject = "finnhub"
    /\ CacheInit
    /\ client_ok = TRUE
    /\ SvcInit
    /\ svc_subject \in {"finnhub", "alpha_vantage"}
    /\ ConcInit
    /\ ExtInit
    /\ rq_subject = "finnhub"

NextAge ==
    \/ \E step \in AgeSteps : QuoteAgeTick(step)
    \/ \E sym \in Symbols, o \in FhQuoteOutcomes : DoFhGetQuote(sym, o)
    \/ \E sym \in Symbols, o \in AvQuoteOutcomes : DoAvGetQuote(sym, o)

SpecAge == InitAge /\ [][NextAge]_vars

\* ---- SpecDeco: calls of one wrapped function, and the clock
InitDeco ==
    /\ ClockInit
    /\ FhInit
    /\ AvInit
    /\ daily_calls = 0
    /\ SeqInit
    /\ seq_subject = "finnhub"
    /\ CacheInit
    /\ client_ok = TRUE
    /\ SvcInit
    /\ svc_subject = "finnhub"
    /\ ConcInit
    /\ rq_subject = "finnhub"
    /\ ExtInit

NextDeco ==
    \/ Tick /\ UNCHANGED <<fhVars, avVars, seqVars, restVars>>
    \/ \E args \in DecoArgLists : DoCachedCall(args)

SpecDeco == InitDeco /\ [][NextDeco]_vars
(***************************************************************************)
(* C1: concurrent callers of one FinnhubRateLimiter never get more than    *)
(* calls_per_minute calls granted with timestamps inside one trailing      *)
(* 60-second window.                                                       *)
(***************************************************************************)
GrantsInWindow(log, end) ==
    Cardinality({i \in 1..Len(log) : log[i] >= end - window_size /\ log[i] <= end})

C1_ConcurrentCapRespected ==
    \A end \in 0..MaxNow : GrantsInWindow(fh_granted, end) <= FhCap

(***************************************************************************)
(* C2: on one AlphaVantageRateLimiter shared by concurrent callers the     *)
(* counters are touched only by the thread holding the lock, minute_tokens *)
(* stays in 0..5, daily_calls stays in 0..500, and at most 5 acquire calls *)
(* are granted between two consecutive minute refills.                     *)
(***************************************************************************)
C2_CountersUnderLock ==
    /\ \A t \in AvThreadIds : AvInCriticalSection(t) => av_lock = t
    /\ minute_tokens \in 0..MinuteCap
    /\ daily_calls \in 0..DailyCap
    /\ av_window_grants <= MinuteCap

\* all five tokens of the window granted and the daily cap reached while one
\* thread holds the lock and another waits for it
C2_Witness ==
    /\ minute_tokens = 0
    /\ av_window_grants = MinuteCap
    /\ daily_calls = DailyCap
    /\ \E t, u \in AvThreadIds : t # u /\ av_lock = t /\ av_pc[u] = "lock"

(***************************************************************************)
(* C3: for each limiter, once cap calls have been granted inside one       *)
(* window the next call inside that window is denied, and once the window  *)
(* has elapsed the full capacity is back: a call is denied only while cap  *)
(* grants lie in the current window.  The window is the trailing 60        *)
(* seconds for FinnhubRateLimiter and the minute since the last refill     *)
(* for AlphaVantageRateLimiter (whose daily budget is not exhausted).      *)
(***************************************************************************)
SeqCallStep == seq_calls' = seq_calls + 1

FhWindowGrants == Cardinality({i \in 1..Len(fh_granted) : fh_granted[i] >= now - window_size})

AvWindowStart ==
    IF now - last_minute_reset >= MinuteWindow THEN now ELSE last_minute_reset

AvWindowGrants == Cardinality({i \in 1..Len(av_granted) : av_granted[i][1] >= AvWindowStart})

C3_CapPerWindowThenRestored ==
    [][ /\ (SeqCallStep /\ seq_ret'.op = "can_make_call")
            => (seq_ret'.val <=> FhWindowGrants < FhCap)
        /\ (SeqCallStep /\ seq_ret'.op = "acquire")
            => /\ seq_ret'.val => AvWindowGrants < MinuteCap
               /\ (~seq_ret'.val /\ daily_calls' < DailyCap) => AvWindowGrants >= MinuteCap
      ]_vars

\* Alpha Vantage: five grants, a denial, and five more grants a window later
C3_Witness ==
    /\ seq_subject = "alpha_vantage"
    /\ seq_ret = [op |-> "acquire", val |-> TRUE]
    /\ Len(av_granted) = 2 * MinuteCap
    /\ av_granted[MinuteCap][1] + MinuteWindow <= av_granted[MinuteCap + 1][1]
    /\ seq_denied >= 1
    /\ minute_tokens = 0

\* Finnhub: cap grants, a denial, and cap more grants a window later
C3_WitnessFinnhub ==
    /\ seq_subject = "finnhub"
    /\ seq_ret = [op |-> "can_make_call", val |-> TRUE]
    /\ total_calls = 2 * FhCap
    /\ fh_granted[FhCap] + window_size < fh_granted[FhCap + 1]
    /\ blocked_calls >= 1
    /\ Len(call_timestamps) = FhCap


(***************************************************************************)
(* C9: when the store is unavailable (the client could not be created, or  *)
(* a store operation fails) every CacheService operation returns its       *)
(* miss/no-op result without raising - None for get and get_ttl, False     *)
(* for set, delete, delete_pattern and exists - and leaves the stored      *)
(* content unchanged.                                                      *)
(***************************************************************************)
CacheCallStep == cache_flip' # cache_flip

Miss(op) == IF op \in {"get", "get_ttl"} THEN PyNone ELSE PyFalse

C9_UnavailableDegrades ==
    [][ CacheCallStep =>
          /\ ~cache_ret'.raised
          /\ (~Usable(client_ok, store_up) \/ cache_ret'.caught)
                => /\ cache_ret'.val = Miss(cache_ret'.op)
                   /\ store' = store
      ]_vars

\* a set that failed against an unreachable Redis holding an earlier entry
C9_Witness ==
    /\ client_ok
    /\ ~store_up
    /\ cache_ret.op = "set"
    /\ cache_ret.caught
    /\ cache_ret.val = PyFalse
    /\ DOMAIN store # {}

\* the client was never created: get answers None
C9_WitnessNoClient ==
    /\ ~client_ok
    /\ cache_ret.op = "get"
    /\ cache_ret.val = PyNone
    /\ ~cache_ret.caught

(***************************************************************************)
(* C10: with the store available, for any key k, any JSON-serializable     *)
(* value v and any ttl passed to set, set(k, v, ttl) followed immediately  *)
(* by get(k) returns a value equal to v, and once ttl seconds have elapsed *)
(* with no further set on k, get(k) returns absent.                        *)
(***************************************************************************)
\* this step is get(k), the store is available, and the latest set was a
\* set on k of a serializable value with a ttl, made with the store available
GetAfterSet(k) ==
    /\ CacheCallStep
    /\ cache_ret'.op = "get"
    /\ cache_ret'.key = k
    /\ Usable(client_ok, store_up)
    /\ last_set.key = k
    /\ last_set.usable
    /\ JsonSerializable(last_set.arg)
    /\ last_set.ttl # PyNone

\* the call before this get was that set, and no time has passed
ImmediatelyAfterSet(k) ==
    /\ cache_ret.op = "set"
    /\ cache_ret.key = k
    /\ last_set.at = now

TtlElapsed == now >= last_set.at + last_set.ttl.num

RoundTripAndExpiry(k) ==
    /\ ImmediatelyAfterSet(k) => cache_ret'.val = last_set.arg
    /\ TtlElapsed => cache_ret'.val = PyNone

C10_RoundTripAnyValueAnyTtl ==
    [][ \A k \in CacheKeys : GetAfterSet(k) => RoundTripAndExpiry(k) ]_vars

\* values JSON carries unchanged: None, bool, int, str, list, dict with str keys
JsonNative(v) ==
    \/ v.kind \in {"none", "bool", "int", "str", "list"}
    \/ v.kind = "dict" /\ v.keykind = "str"

\* C10 as amended: the same for a JSON-native value and a positive ttl
C10_RoundTripNativePositiveTtl ==
    [][ \A k \in CacheKeys :
          (GetAfterSet(k) /\ JsonNative(last_set.arg) /\ last_set.ttl.num > 0)
              => RoundTripAndExpiry(k)
      ]_vars

\* a get that found the key gone one ttl after it was set
C10_Witness ==
    /\ Usable(client_ok, store_up)
    /\ cache_ret.op = "get"
    /\ cache_ret.key = last_set.key
    /\ cache_ret.val = PyNone
    /\ last_set.usable
    /\ last_set.arg = PyInt(0)
    /\ last_set.ttl = PyInt(TickStep)
    /\ now >= last_set.at + TickStep

\* a get that returned the value set just before
C10_WitnessRoundTrip ==
    /\ cache_ret.op = "get"
    /\ cache_ret.key = last_set.key
    /\ cache_ret.val = PyInt(0)
    /\ last_set.arg = PyInt(0)
    /\ last_set.at = now

(***************************************************************************)
(* Vocabulary of the claims about get_quote.                               *)
(***************************************************************************)
SvcCallStep == svc_flip' # svc_flip

\* this step is get_quote(sym) on the service the run exercises
QuoteCall(sym) ==
    /\ SvcCallStep
    /\ svc_ret'.op = "get_quote"
    /\ svc_ret'.sym = sym

QuoteKey(sym) == IF svc_subject = "finnhub" THEN FhQuoteKey(sym) ELSE AvQuoteKey(sym)

Stored(k) == JsonLoads(store[k].data)

\* the cache answers and holds the fresh entry of sym
FreshPresent(sym) == Usable(client_ok, store_up) /\ QuoteKey(sym) \in DOMAIN store

\* the cache answers and holds no fresh entry of sym
FreshMisses(sym) == Usable(client_ok, store_up) /\ QuoteKey(sym) \notin DOMAIN store

StalePresent(sym) == StaleKey(QuoteKey(sym)) \in DOMAIN store

StaleCopy(sym) == Stored(StaleKey(QuoteKey(sym)))

\* the limiter of the exercised service has quota left at this moment
LimiterWouldGrant ==
    IF svc_subject = "finnhub"
      THEN Cardinality({i \in 1..Len(call_timestamps) :
                          call_timestamps[i] >= now - window_size}) < FhCap
      ELSE /\ (now - last_minute_reset >= MinuteWindow \/ minute_tokens > 0)
           /\ (today > last_day_reset \/ daily_calls < DailyCap)

LimiterUntouched ==
    UNCHANGED <<call_timestamps, total_calls, blocked_calls, minute_tokens, daily_calls,
                last_minute_reset, last_day_reset>>

(***************************************************************************)
(* C4: if the fresh cache entry of a symbol is present, get_quote (both    *)
(* services) returns that entry at once: no limiter quota is consumed, no  *)
(* upstream call is made and no cache entry is written, whatever the       *)
(* limiter's state.                                                        *)
(***************************************************************************)
C4_FreshHitReturnsAtOnce ==
    [][ \A sym \in Symbols :
          (QuoteCall(sym) /\ FreshPresent(sym))
              => /\ svc_ret'.val = Stored(QuoteKey(sym))
                 /\ ~svc_ret'.raised
                 /\ ~svc_ret'.http
                 /\ ~svc_ret'.granted
                 /\ store' = store
                 /\ LimiterUntouched
      ]_vars

\* a Finnhub hit answered while the limiter's window is full
C4_Witness ==
    /\ svc_subject = "finnhub"
    /\ svc_ret.op = "get_quote"
    /\ ~svc_ret.http
    /\ store_up
    /\ FhQuoteKey(svc_ret.sym) \in DOMAIN store
    /\ svc_ret.val = Stored(FhQuoteKey(svc_ret.sym))
    /\ Len(call_timestamps) = FhCap
    /\ \A i \in 1..Len(call_timestamps) : call_timestamps[i] >= now - window_size

\* the same on Alpha Vantage, all five tokens of the minute spent
C4_WitnessAlphaVantage ==
    /\ svc_subject = "alpha_vantage"
    /\ svc_ret.op = "get_quote"
    /\ ~svc_ret.http
    /\ store_up
    /\ AvQuoteKey(svc_ret.sym) \in DOMAIN store
    /\ svc_ret.val = Stored(AvQuoteKey(svc_ret.sym))
    /\ minute_tokens = 0
    /\ now - last_minute_reset < MinuteWindow

(***************************************************************************)
(* C5: when the fresh quote entry misses and the service's limiter denies, *)
(* get_quote makes no upstream call; it returns the stale-key copy         *)
(* carrying stale=true if that copy exists, and None otherwise.  Both      *)
(* services.                                                               *)
(***************************************************************************)
C5_DeniedReturnsFlaggedStale ==
    [][ \A sym \in Symbols :
          (QuoteCall(sym) /\ FreshMisses(sym) /\ ~LimiterWouldGrant)
              => /\ ~svc_ret'.http
                 /\ ~svc_ret'.raised
                 /\ svc_ret'.val = IF StalePresent(sym)
                                     THEN WithStale(StaleCopy(sym))
                                     ELSE PyNone
      ]_vars

(***************************************************************************)
(* C6: when the fresh quote entry misses, the limiter grants and the       *)
(* upstream call yields a valid quote, get_quote writes that quote under   *)
(* the fresh key and under the stale key, the stale TTL being 10 to 20     *)
(* times the fresh TTL, and returns the quote without a stale flag.        *)
(***************************************************************************)
C6_FetchWritesFreshAndStale ==
    [][ \A sym \in Symbols :
          (QuoteCall(sym) /\ FreshMisses(sym) /\ LimiterWouldGrant
                /\ svc_ret'.upstream = "ok")
              => LET fresh == QuoteKey(sym)
                     stale == StaleKey(QuoteKey(sym))
                     quote == svc_ret'.val
                 IN /\ quote.kind = "dict"
                    /\ ~HasStale(quote)
                    /\ {fresh, stale} \subseteq DOMAIN store'
                    /\ JsonLoads(store'[fresh].data) = quote
                    /\ JsonLoads(store'[stale].data) = quote
                    /\ store'[fresh].expires_at > now
                    /\ store'[stale].expires_at - now >= 10 * (store'[fresh].expires_at - now)
                    /\ store'[stale].expires_at - now <= 20 * (store'[fresh].expires_at - now)
      ]_vars

\* a quote just fetched, held under both keys
C6_Witness ==
    /\ svc_ret.op = "get_quote"
    /\ svc_ret.upstream = "ok"
    /\ svc_ret.val.kind = "dict"
    /\ store_up
    /\ LET fresh == QuoteKey(svc_ret.sym) IN
         /\ {fresh, StaleKey(fresh)} \subseteq DOMAIN store
         /\ Stored(fresh) = svc_ret.val
         /\ Stored(StaleKey(fresh)) = svc_ret.val
         /\ store[fresh].expires_at < store[StaleKey(fresh)].expires_at

(***************************************************************************)
(* C7: when the limiter grants but the upstream quote call fails (network  *)
(* error or timeout, HTTP error, malformed payload, an error or rate-limit *)
(* notice inside the response), get_quote returns the stale copy if one    *)
(* exists and None only if none exists.                                    *)
(***************************************************************************)
FailureOutcomes ==
    {"timeout", "http_error", "bad_json", "bad_field", "zero_pc", "error_message", "note"}

C7_FailureReturnsStale ==
    [][ \A sym \in Symbols :
          (QuoteCall(sym) /\ FreshMisses(sym) /\ LimiterWouldGrant
                /\ svc_ret'.upstream \in FailureOutcomes)
              => IF StalePresent(sym)
                   THEN svc_ret'.val \in {StaleCopy(sym), WithStale(StaleCopy(sym))}
                   ELSE svc_ret'.val = PyNone
      ]_vars

(***************************************************************************)
(* C8: for every cache state (hit, miss, unavailable), limiter decision    *)
(* and upstream outcome, get_quote, get_candles, get_historical_data and   *)
(* search_symbol return a quote, None or a (possibly empty) list and never *)
(* raise to their caller.                                                  *)
(***************************************************************************)
ProviderHandlers == {"get_quote", "get_candles", "get_historical_data", "search_symbol"}

C8_WitnessDeniedHistory ==
    /\ svc_ret.op = "get_historical_data"
    /\ ~svc_ret.granted
    /\ ~svc_ret.http
    /\ svc_ret.val = EmptyList
    /\ minute_tokens = 0

(***************************************************************************)
(* C11: AlphaVantageRateLimiter.acquire, after the lazy reset, grants iff  *)
(* minute_tokens > 0 and daily_calls < 500; a grant takes exactly one      *)
(* minute token and adds exactly one to daily_calls, a denial leaves both  *)
(* counters at their values after the reset.                               *)
(***************************************************************************)
AcquireStep == SeqCallStep /\ seq_ret'.op = "acquire"

\* the counters as the lazy reset leaves them, before the test of line 51
TokensAfterReset ==
    IF now - last_minute_reset >= MinuteWindow THEN MinuteCap ELSE minute_tokens

DailyAfterReset == IF today > last_day_reset THEN 0 ELSE daily_calls

C11_AcquireGrantsIffBothBudgets ==
    [][ AcquireStep =>
          /\ seq_ret'.val <=> (TokensAfterReset > 0 /\ DailyAfterReset < DailyCap)
          /\ seq_ret'.val => /\ minute_tokens' = TokensAfterReset - 1
                             /\ daily_calls' = DailyAfterReset + 1
          /\ ~seq_ret'.val => /\ minute_tokens' = TokensAfterReset
                              /\ daily_calls' = DailyAfterReset
      ]_vars

\* an acquire denied by the daily budget alone, after earlier grants
C11_Witness ==
    /\ seq_ret = [op |-> "acquire", val |-> FALSE]
    /\ daily_calls = DailyCap
    /\ minute_tokens > 0
    /\ av_granted # <<>>

(***************************************************************************)
(* C12: AlphaVantageRateLimiter keeps the documented limit of 5 calls per  *)
(* minute: whatever the sequence of acquire calls and clock advances, at   *)
(* most 5 acquire calls are granted in any 60-second interval.             *)
(***************************************************************************)
\* the grants whose time lies in the 60 seconds that end at `end`
AvGrantsInInterval(end) ==
    Cardinality({i \in 1..Len(av_granted) :
                   av_granted[i][1] > end - MinuteWindow /\ av_granted[i][1] <= end})

C12_FivePerAnySixtySeconds ==
    \A end \in 0..MaxNow : AvGrantsInInterval(end) <= MinuteCap

(***************************************************************************)
(* C13: once 500 acquire calls have been granted within one calendar day,  *)
(* every further acquire and can_make_request of that day is denied, also  *)
(* after a minute refill; the first access on a later calendar day resets  *)
(* daily_calls to 0 and calls are granted again.                           *)
(***************************************************************************)
AvCallStep == SeqCallStep /\ seq_subject = "alpha_vantage"

DailyBudgetSpent == daily_calls = DailyCap /\ ~(today > last_day_reset)

LaterDay == today > last_day_reset

C13_DailyCapUntilNextDay ==
    [][ AvCallStep =>
          /\ (DailyBudgetSpent /\ seq_ret'.op \in {"acquire", "can_make_request"})
               => /\ seq_ret'.val = FALSE
                  /\ daily_calls' = DailyCap
          /\ LaterDay
               => /\ last_day_reset' = today
                  /\ seq_ret'.op # "acquire" => daily_calls' = 0
                  /\ seq_ret'.op = "acquire"
                       => /\ seq_ret'.val <=> TokensAfterReset > 0
                          /\ daily_calls' = IF seq_ret'.val THEN 1 ELSE 0
      ]_vars

\* the daily budget is spent and a request is refused with all five minute
\* tokens refilled
C13_Witness ==
    /\ seq_ret = [op |-> "can_make_request", val |-> FALSE]
    /\ daily_calls = DailyCap
    /\ minute_tokens = MinuteCap
    /\ last_minute_reset >= MinuteWindow
    /\ Len(av_granted) >= MinuteCap

\* the next day: the counter restarted and the first acquire was granted
C13_WitnessNextDay ==
    /\ seq_ret = [op |-> "acquire", val |-> TRUE]
    /\ today = 1
    /\ last_day_reset = 1
    /\ daily_calls = 1
    /\ seq_denied >= 1
    /\ Len(av_granted) > MinuteCap
    /\ av_granted[Len(av_granted)][2] = 1
    /\ \A i \in 1..(Len(av_granted) - 1) : av_granted[i][2] = 0

(***************************************************************************)
(* C14: for one caller at a time, FinnhubRateLimiter.can_make_call first   *)
(* evicts the timestamps older than now - 60 s, grants iff fewer than      *)
(* calls_per_minute timestamps remain, and appends now only on a grant;    *)
(* so the queue never holds more than calls_per_minute timestamps and a    *)
(* denied call adds none.                                                  *)
(***************************************************************************)
CanMakeCallStep == SeqCallStep /\ seq_ret'.op = "can_make_call"

\* the timestamps of the queue that are not older than now - window_size
NotOlderThanWindow ==
    LET InWindow(ts) == ts >= now - window_size
    IN SelectSeq(call_timestamps, InWindow)

C14_EvictThenGrantBelowCap ==
    [][ /\ CanMakeCallStep =>
             /\ seq_ret'.val <=> Len(NotOlderThanWindow) < FhCap
             /\ seq_ret'.val => call_timestamps' = Append(NotOlderThanWindow, now)
             /\ ~seq_ret'.val => call_timestamps' = NotOlderThanWindow
        /\ seq_subject = "finnhub" => Len(call_timestamps') <= FhCap
      ]_vars

\* a call granted after an expired timestamp was evicted, a denial before it
C14_Witness ==
    /\ seq_ret = [op |-> "can_make_call", val |-> TRUE]
    /\ blocked_calls >= 1
    /\ total_calls > Len(call_timestamps)
    /\ Len(call_timestamps) = FhCap
    /\ call_timestamps[FhCap] = now
    /\ call_timestamps[1] < now

(***************************************************************************)
(* C15: a historical retrieval tries the primary provider (Finnhub         *)
(* candles) first and invokes the secondary provider (the Alpha Vantage    *)
(* daily series) exactly when the primary returned an empty series; when   *)
(* the secondary is empty too, the result is the empty list.               *)
(***************************************************************************)
HistoricalOps == {"get_candles", "get_historical_data", "api_get_historical_data"}

\* a request for a historical series that went to a provider
HistoricalFetchStep ==
    SvcCallStep /\ svc_ret'.op \in HistoricalOps /\ svc_ret'.providers # <<>>

Invoked(r, provider) == \E i \in 1..Len(r.providers) : r.providers[i] = provider

\* the Finnhub candles call of the request came back without a series
PrimaryEmpty(r) == r.op = "get_candles" /\ Invoked(r, "finnhub") /\ r.val = EmptyList

C15_PrimaryThenSecondaryOnEmpty ==
    [][ HistoricalFetchStep =>
          /\ Head(svc_ret'.providers) = "finnhub"
          /\ Invoked(svc_ret', "alpha_vantage") <=> PrimaryEmpty(svc_ret')
          /\ (Invoked(svc_ret', "alpha_vantage") /\ svc_ret'.upstream = "empty")
               => svc_ret'.val = EmptyList
      ]_vars

(***************************************************************************)
(* C16: whenever a historical retrieval ends with an empty series (the     *)
(* upstream returned no data or an error, or the limiter denied), that     *)
(* request writes no cache entry, fresh or stale.                          *)
(***************************************************************************)
\* the request ended without a series: [] from a provider service, 404 "No
\* data found" from the endpoint
EndsEmpty(r) ==
    r.op \in HistoricalOps /\ (r.val = EmptyList \/ r.status = "404")

C16_EmptyResultWritesNothing ==
    [][ (SvcCallStep /\ EndsEmpty(svc_ret')) => store' = store ]_vars

\* the upstream answered with an empty series while the cache could be written
C16_Witness ==
    /\ EndsEmpty(svc_ret)
    /\ svc_ret.upstream = "empty"
    /\ Usable(client_ok, store_up)

\* the endpoint answered 404 while the cache could be written
C16_WitnessEndpoint ==
    /\ svc_ret.op = "api_get_historical_data"
    /\ svc_ret.status = "404"
    /\ svc_ret.upstream \in {"timeout", "empty"}
    /\ Usable(client_ok, store_up)

\* the limiter denied and no stale copy was there
C16_WitnessDenied ==
    /\ EndsEmpty(svc_ret)
    /\ ~svc_ret.granted
    /\ ~svc_ret.http
    /\ svc_ret.op \in {"get_candles", "get_historical_data"}
    /\ Usable(client_ok, store_up)

(***************************************************************************)
(* C17: when a provider's historical call (FinnhubService.get_candles,     *)
(* AlphaVantageService.get_historical_data) returns a non-empty series,    *)
(* the series is written to the cache as a fresh entry and as a            *)
(* longer-lived stale entry, and it is returned.                           *)
(***************************************************************************)
ProviderHistoricalOps == {"get_candles", "get_historical_data"}

\* the cache key of the series a request asked for at time t
HistoricalKey(r, t) ==
    IF r.op = "get_candles" THEN FhCandlesKey(r.sym, t) ELSE AvHistoricalKey(r.sym)

\* the provider was called and delivered bars
FetchedSeries(r) ==
    r.op \in ProviderHistoricalOps /\ r.http /\ r.upstream = "ok"

C17_SeriesCachedFreshAndStale ==
    [][ (SvcCallStep /\ FetchedSeries(svc_ret') /\ Usable(client_ok, store_up)) =>
          LET key == HistoricalKey(svc_ret', now) IN
            /\ svc_ret'.val # EmptyList
            /\ key \in DOMAIN store'
            /\ JsonLoads(store'[key].data) = svc_ret'.val
            /\ StaleKey(key) \in DOMAIN store'
            /\ JsonLoads(store'[StaleKey(key)].data) = svc_ret'.val
            /\ store'[StaleKey(key)].expires_at > store'[key].expires_at
      ]_vars

(***************************************************************************)
(* C18: on a limiter denial or a provider error during a historical        *)
(* retrieval the stale cached series is returned when one exists; the      *)
(* empty list is returned only when there is no stale copy.                *)
(***************************************************************************)
\* this step is a provider service's historical call that misses the fresh entry
HistoricalMissStep ==
    /\ SvcCallStep
    /\ svc_ret'.op \in ProviderHistoricalOps
    /\ ~(Usable(client_ok, store_up) /\ HistoricalKey(svc_ret', now) \in DOMAIN store)

\* a stale copy of the requested series that the cache can deliver
StaleSeriesPresent(r) ==
    Usable(client_ok, store_up) /\ StaleKey(HistoricalKey(r, now)) \in DOMAIN store

C18_DeniedOrFailedReturnsStale ==
    [][ (HistoricalMissStep
           /\ (~LimiterWouldGrant \/ svc_ret'.upstream \in FailureOutcomes))
          => svc_ret'.val = IF StaleSeriesPresent(svc_ret')
                              THEN Stored(StaleKey(HistoricalKey(svc_ret', now)))
                              ELSE EmptyList
      ]_vars

(***************************************************************************)
(* C19: requests are not coalesced.  Two concurrent get_quote requests for *)
(* the same symbol whose fresh key is absent can both miss the cache, both *)
(* be granted by the limiter and both call upstream; every upstream call   *)
(* costs its own unit of quota, and no request waits for another request:  *)
(* a request in flight can always take its next step, except while it      *)
(* waits for the lock inside AlphaVantageRateLimiter, which its holder     *)
(* keeps only for the limiter call itself.                                 *)
(***************************************************************************)
\* the units of quota the limiter has handed out
QuotaConsumed == IF rq_subject = "finnhub" THEN Len(fh_granted) ELSE daily_calls

\* the limiter call of t has consumed a unit and has not yet returned to get_quote
GrantInReturn(t) ==
    /\ rq_pc[t] = "in_limiter"
    /\ IF rq_subject = "finnhub"
         THEN \/ fh_pc[t] \in {"l33_load", "l33_store"}
              \/ fh_pc[t] = "idle" /\ fh_ret[t] = "true"
         ELSE av_pc[t] = "unlock" /\ av_ret

UpstreamCallsDue ==
    Cardinality({t \in RqThreadIds : rq_pc[t] = "upstream" \/ GrantInReturn(t)})

\* t waits for the limiter's lock, held by a thread that is inside acquire
WaitsForLimiterLock(t) ==
    /\ rq_subject = "alpha_vantage"
    /\ av_pc[t] = "lock"
    /\ av_lock \in RqThreadIds \ {t}
    /\ rq_pc[av_lock] = "in_limiter"
    /\ ENABLED RqNextOf(av_lock)

C19_NoCoalescing ==
    /\ QuotaConsumed = rq_http + UpstreamCallsDue
    /\ \A t \in RqThreadIds :
         /\ rq_pc[t] \in {"upstream", "write_fresh", "write_stale"} => rq_granted[t]
         /\ rq_pc[t] # "idle" => (ENABLED RqNextOf(t) \/ WaitsForLimiterLock(t))

\* both requests missed, were granted and have called upstream; neither has
\* written the fresh key yet
C19_Witness ==
    /\ \A t \in RqThreadIds : rq_pc[t] = "write_fresh" /\ rq_granted[t]
    /\ rq_started = 2
    /\ rq_http = 2
    /\ QuotaConsumed = 2
    /\ RqKey \notin DOMAIN store

\* the same on Alpha Vantage
C19_WitnessAlphaVantage ==
    /\ rq_subject = "alpha_vantage"
    /\ \A t \in RqThreadIds : rq_pc[t] = "write_fresh" /\ rq_granted[t]
    /\ rq_http = 2
    /\ minute_tokens = MinuteCap - 2
    /\ RqKey \notin DOMAIN store

(***************************************************************************)
(* C20: a cache entry written by the provider services (fresh or stale     *)
(* key) is created only after a successful provider call, is never         *)
(* overwritten or modified while it is unexpired, and is never deleted     *)
(* explicitly: it disappears only through TTL expiry.                      *)
(***************************************************************************)
\* the entries that were there and are different or gone after the step
Changed == {k \in DOMAIN store \cap DOMAIN store' : store'[k] # store[k]}
Created == DOMAIN store' \ DOMAIN store
Removed == DOMAIN store \ DOMAIN store'

\* the step is a request whose provider call delivered the data
SuccessfulCallStep == SvcCallStep /\ svc_ret'.http /\ svc_ret'.upstream = "ok"

\* entries go away only when their time is up, appear only with a successful
\* call and hold what that call returned
CreatedByCallRemovedByTtl ==
    /\ \A k \in Removed : store[k].expires_at <= now'
    /\ \A k \in Created \cup Changed :
         /\ SuccessfulCallStep
         /\ JsonLoads(store'[k].data) = svc_ret'.val
         /\ store'[k].expires_at > now

\* the claim as stated: nothing is ever written over a live entry
C20_WriteOnceUntilExpiry ==
    [][ CreatedByCallRemovedByTtl /\ Changed = {} ]_vars

\* the key a provider service's request caches its result under
RequestKey(r, t) ==
    CASE r.op = "get_quote" -> QuoteKey(r.sym)
      [] r.op = "search_symbol" -> AvSearchKey(r.sym)
      [] r.op = "api_get_historical_data" -> "none"
      [] OTHER -> HistoricalKey(r, t)

\* amended: a live entry is replaced only by a successful call, and then it is
\* the stale copy of the key that call fetched; live fresh entries stay
C20_LiveEntryReplacedOnlyAsStaleCopy ==
    [][ /\ CreatedByCallRemovedByTtl
        /\ Changed \subseteq {StaleKey(RequestKey(svc_ret', now))}
      ]_vars

\* a second successful fetch has replaced the stale copy that was still live
C20_Witness ==
    /\ svc_ret.upstream = "ok"
    /\ svc_ret.replaced = {StaleKey(RequestKey(svc_ret, now))}
    /\ now > 0

\* two requests at a time: the store changes only at the cache writes of a
\* request that was granted and has called upstream
C20_ConcurrentWritesByFetchedRequests ==
    [][ store' # store =>
          \E t \in RqThreadIds :
            /\ rq_pc[t] \in {"write_fresh", "write_stale"}
            /\ rq_granted[t]
            /\ rq_pc'[t] # rq_pc[t]
            /\ \A k \in Created \cup Changed :
                 /\ k \in {RqKey, StaleKey(RqKey)}
                 /\ JsonLoads(store'[k].data) = rq_res[t].val
            /\ Removed = {}
      ]_vars

\* the second of two concurrent requests has written over the live fresh
\* entry of the first
C20_WitnessConcurrentFresh ==
    /\ \A t \in RqThreadIds : rq_pc[t] \in {"write_stale", "idle"} /\ rq_granted[t]
    /\ rq_started = 2
    /\ rq_http = 2
    /\ RqKey \in DOMAIN store

(***************************************************************************)
(* C21: each logical provider call (get_quote, get_candles,                *)
(* get_historical_data, search_symbol) consumes at most one unit of        *)
(* limiter quota, issues at most one upstream HTTP GET (and only after a   *)
(* grant), and runs to completion in the one call, without waiting or      *)
(* retrying: a denied call returns its answer with no upstream request.    *)
(***************************************************************************)
ProviderCallStep == SvcCallStep /\ svc_ret'.op \in ProviderHandlers

\* the units of quota this step took from the limiter of the exercised service
QuotaTaken ==
    IF svc_subject = "finnhub"
      THEN total_calls' - total_calls
      ELSE daily_calls' - DailyAfterReset

\* this step found no usable fresh entry and the limiter had no quota left
DeniedCall == ProviderCallStep /\ ~svc_ret'.granted /\ QuotaTaken = 0 /\ ~LimiterWouldGrant

C21_WitnessGranted ==
    /\ svc_ret.op = "get_candles"
    /\ svc_ret.granted
    /\ svc_ret.providers = <<"finnhub">>
    /\ total_calls = 1

(***************************************************************************)
(* C22: the stale flag is set only on a quote returned by the stale        *)
(* fallback: a quote returned from a fresh cache hit or from a live fetch  *)
(* never carries stale = true, and no entry stored in the cache, under a   *)
(* fresh or a stale key, ever carries it.                                  *)
(***************************************************************************)
\* some entry of the store st carries the stale flag
StaleFlagStored(st) == \E k \in DOMAIN st : HasStale(JsonLoads(st[k].data))

\* the call answered from the stale fallback: no usable fresh entry, then a
\* denial or a failed upstream request, and the stale copy as the answer
FromStaleFallback(sym) ==
    /\ ~(FreshPresent(sym) /\ Truthy(Stored(QuoteKey(sym))))
    /\ ~svc_ret'.granted \/ svc_ret'.caught
    /\ Usable(client_ok, store_up)
    /\ StalePresent(sym)
    /\ svc_ret'.val = WithStale(StaleCopy(sym))

C22_StaleFlagOnlyOnFallback ==
    [][ /\ ~StaleFlagStored(store')
        /\ \A sym \in Symbols :
             (QuoteCall(sym) /\ HasStale(svc_ret'.val)) => FromStaleFallback(sym)
      ]_vars

\* Finnhub get_quote has answered with the flagged stale copy after a failed
\* upstream request, and the stored copy carries no flag
C22_Witness ==
    /\ svc_ret.op = "get_quote"
    /\ svc_ret.caught
    /\ HasStale(svc_ret.val)
    /\ StaleKey(FhQuoteKey(svc_ret.sym)) \in DOMAIN store
    /\ ~StaleFlagStored(store)

(***************************************************************************)
(* C23: get_top_gainers_losers(market, limit = N) builds the movers from   *)
(* the quotes of its symbols: gainers are the up-to-N entries with         *)
(* change_percent > 0 in descending order, losers the up-to-N entries with *)
(* change_percent < 0, an entry with change_percent 0 is in neither, fewer *)
(* than N qualifying entries are returned without padding; for the changes *)
(* [5, -3, 0, 2, -7] and N = 2 gainers are [5, 2] and losers [-3, -7].     *)
(***************************************************************************)
MktCallStep == mk_flip' # mk_flip

MoversCallStep == MktCallStep /\ mk_ret'.op = "get_top_gainers_losers"

Among(xs, P(_)) == {i \in 1..Len(xs) : P(xs[i])}

\* xs holds Min(n, number of qualifying entries) distinct qualifying entries of changes
TopOf(xs, changes, n, Qualifies(_)) ==
    /\ Len(xs) = Min(n, Cardinality(Among(changes, Qualifies)))
    /\ \A i \in 1..Len(xs) : Qualifies(xs[i])
    /\ \E f \in [1..Len(xs) -> Among(changes, Qualifies)] :
         /\ \A i, j \in 1..Len(xs) : i # j => f[i] # f[j]
         /\ \A i \in 1..Len(xs) : changes[f[i]] = xs[i]

Descending(xs) == \A i, j \in 1..Len(xs) : i < j => xs[i] >= xs[j]

C23_MoversFromQuotes ==
    [][ MoversCallStep =>
          LET r == mk_ret' IN
            /\ TopOf(r.gainers, r.changes, r.limit, LAMBDA c : c > 0)
            /\ Descending(r.gainers)
            /\ \A c \in {r.changes[i] : i \in Among(r.changes, LAMBDA c : c > 0)} :
                 \A i \in 1..Len(r.gainers) :
                   c > r.gainers[i] => \E j \in 1..Len(r.gainers) : r.gainers[j] = c
            /\ TopOf(r.losers, r.changes, r.limit, LAMBDA c : c < 0)
            /\ (r.changes = <<5, -3, 0, 2, -7>> /\ r.limit = 2) =>
                 r.gainers = <<5, 2>> /\ r.losers = <<-3, -7>>
      ]_vars

(***************************************************************************)
(* C24: a composite result computed for indices or movers is stored under  *)
(* its own key (market:indices, market:movers:{market}:{limit}) with its   *)
(* TTL, and every later identical request made before that key expires is  *)
(* answered from the cached composite, without any per-symbol quote        *)
(* request.                                                                *)
(***************************************************************************)
EndpointCallStep ==
    /\ MktCallStep
    /\ mk_ret'.op \in {"api_get_indices", "api_get_movers"}
    /\ mk_ret'.status = "200"

\* the key of the composite the call asks for, and its TTL
CompositeKey(r) ==
    IF r.op = "api_get_indices" THEN IndicesKey ELSE MoversKey(r.market, r.limit)

CompositeTtl(r) == IF r.op = "api_get_indices" THEN IndicesTtl ELSE MoversTtl

C24_CompositeCachedAndServed ==
    [][ (EndpointCallStep /\ Usable(client_ok, store_up)) =>
          LET key == CompositeKey(mk_ret') IN
            IF key \in DOMAIN store
              THEN /\ mk_ret'.val = Stored(key)
                   /\ mk_ret'.fetched = 0
                   /\ store' = store
              ELSE /\ key \in DOMAIN store'
                   /\ JsonLoads(store'[key].data) = mk_ret'.val
                   /\ store'[key].expires_at = now + CompositeTtl(mk_ret')
      ]_vars

(***************************************************************************)
(* Vocabulary of the claims about the indicators.                          *)
(***************************************************************************)
\* the call whose result the caller holds
TaCall(op) == ta_ret.op = op

\* the mean of the last n prices of the series exceeds, or falls below, the
\* mean of the last m prices by more than 2 percent
MeanAbove(n, m) == 100 * Sum(Last(ta_series, n)) * m > 102 * Sum(Last(ta_series, m)) * n
MeanBelow(n, m) == 100 * Sum(Last(ta_series, n)) * m < 98 * Sum(Last(ta_series, m)) * n

(***************************************************************************)
(* C25: for every input series, the empty series and series shorter than   *)
(* an indicator's minimum included, the result of calculate_all_indicators *)
(* has an entry for every indicator (SMA, EMA, RSI, MACD line, signal and  *)
(* histogram, Bollinger upper, middle and lower, ATR, trend); an indicator *)
(* that cannot be computed is present with value null, never omitted.      *)
(***************************************************************************)
IndicatorKeys ==
    {"sma_20", "sma_50", "sma_200", "ema_12", "ema_26", "rsi_14", "macd", "signal",
     "histogram", "bb_upper", "bb_middle", "bb_lower", "atr_14"}

C25_EveryIndicatorPresent ==
    TaCall("calculate_all_indicators") =>
        /\ IndicatorKeys \subseteq DOMAIN ta_ret.dict.items
        /\ ta_ret.trend \in {"BULLISH", "BEARISH", "NEUTRAL"}

(***************************************************************************)
(* C26: calculate_sma, calculate_ema, calculate_rsi, calculate_macd,       *)
(* calculate_bollinger_bands and calculate_atr return null whenever the    *)
(* input is shorter than the required minimum (period for SMA, EMA and     *)
(* Bollinger, slow_period for MACD, period + 1 for RSI and ATR), and none  *)
(* of them raises for any input, the empty series and high/low/close lists *)
(* of differing lengths included.                                          *)
(***************************************************************************)
\* the input of the call is shorter than the minimum of its indicator
TooShort(r) ==
    IF r.op \in {"calculate_sma", "calculate_ema", "calculate_bollinger_bands"}
      THEN Len(ta_series) < r.args[1]
    ELSE IF r.op = "calculate_macd" THEN Len(ta_series) < r.args[2]
    ELSE IF r.op = "calculate_rsi" THEN Len(ta_series) < r.args[1] + 1
    ELSE \E i \in 2..4 : r.args[i] < r.args[1] + 1

\* the call returned None
ReturnedNone(r) ==
    /\ ~r.raised
    /\ IF r.op \in {"calculate_macd", "calculate_bollinger_bands"}
         THEN r.dict.none
         ELSE r.val.none

NullableIndicators ==
    {"calculate_sma", "calculate_ema", "calculate_rsi", "calculate_macd",
     "calculate_bollinger_bands", "calculate_atr"}

C26_NullWhenShortNeverRaises ==
    ta_ret.op \in NullableIndicators =>
        /\ ~ta_ret.raised
        /\ TooShort(ta_ret) => ReturnedNone(ta_ret)

(***************************************************************************)
(* C27: identify_trend(prices, short, long) returns BULLISH iff            *)
(* SMA(short) > SMA(long) x 1.02, BEARISH iff SMA(short) < SMA(long) x     *)
(* 0.98, and NEUTRAL in every other case, including whenever the series is *)
(* too short to compute either average.                                    *)
(***************************************************************************)
\* both averages of the call can be computed
BothAverages(r) == Len(ta_series) >= r.args[1] /\ Len(ta_series) >= r.args[2]

C27_TrendByTwoPercentBands ==
    TaCall("identify_trend") =>
        LET r == ta_ret IN
          /\ r.trend = "BULLISH" <=> (BothAverages(r) /\ MeanAbove(r.args[1], r.args[2]))
          /\ r.trend = "BEARISH" <=> (BothAverages(r) /\ MeanBelow(r.args[1], r.args[2]))
          /\ r.trend \in {"BULLISH", "BEARISH", "NEUTRAL"}
          /\ ~BothAverages(r) => r.trend = "NEUTRAL"
          /\ ~r.raised

\* BULLISH on a series whose short average is above the long one by more
\* than 2 percent
C27_Witness ==
    /\ TaCall("identify_trend")
    /\ ta_ret.trend = "BULLISH"
    /\ ta_ret.args = <<TrendShort, TrendLong>>
    /\ Len(ta_series) >= TrendLong

\* NEUTRAL although the short average is the larger one, within 2 percent
C27_WitnessWithinBand ==
    /\ TaCall("identify_trend")
    /\ ta_ret.trend = "NEUTRAL"
    /\ BothAverages(ta_ret)
    /\ Sum(Last(ta_series, ta_ret.args[1])) * ta_ret.args[2]
         > Sum(Last(ta_series, ta_ret.args[2])) * ta_ret.args[1]

\* NEUTRAL on a series too short for the long average
C27_WitnessTooShort ==
    /\ TaCall("identify_trend")
    /\ ta_ret.trend = "NEUTRAL"
    /\ Len(ta_series) > 0
    /\ Len(ta_series) < ta_ret.args[2]

(***************************************************************************)
(* C28: for every price series of at least period + 1 prices calculate_rsi *)
(* returns a value in [0, 100], and exactly 100 when all of the trailing   *)
(* period deltas are non-negative (average loss 0).                        *)
(***************************************************************************)
\* the last period deltas of the series are all non-negative
NoTrailingLoss(period) ==
    \A i \in (Len(ta_series) - period + 1)..Len(ta_series) :
      ta_series[i] >= ta_series[i - 1]

C28_RsiWithinBounds ==
    (TaCall("calculate_rsi") /\ Len(ta_series) >= ta_ret.args[1] + 1) =>
        LET v == ta_ret.val IN
          /\ ~ta_ret.raised
          /\ ~v.none
          /\ 0 <= v.num
          /\ v.num <= 100 * v.den
          /\ NoTrailingLoss(ta_ret.args[1]) => v.num = 100 * v.den

\* an RSI strictly between 0 and 100: gains and losses in the window
C28_Witness ==
    /\ TaCall("calculate_rsi")
    /\ ~ta_ret.val.none
    /\ 0 < ta_ret.val.num
    /\ ta_ret.val.num < 100 * ta_ret.val.den

\* exactly 100 over 14 deltas without a loss
C28_WitnessNoLoss ==
    /\ TaCall("calculate_rsi")
    /\ ta_ret.args = <<RsiPeriod>>
    /\ Len(ta_series) > RsiPeriod
    /\ NoTrailingLoss(RsiPeriod)
    /\ ta_ret.val = Ratio(100, 1)

(***************************************************************************)
(* C29: the bar sequence returned by each provider's historical call is in *)
(* strictly ascending date order and contains no two bars with the same    *)
(* date, for every upstream payload the provider accepts.                  *)
(***************************************************************************)
StrictlyAscending(days) == \A i \in 1..(Len(days) - 1) : days[i] < days[i + 1]

NoDateTwice(v) ==
    \A i, j \in 1..Len(v.items) : v.items[i] = v.items[j] => i = j

C29_BarsAscendingDistinct ==
    bar_ret.op # "none" =>
        /\ StrictlyAscending(bar_ret.days)
        /\ NoDateTwice(bar_ret.val)

(***************************************************************************)
(* C30: querying the limiters consumes no quota.  A call of get_stats on   *)
(* either limiter, or of AlphaVantageRateLimiter.can_make_request, leaves  *)
(* the granted calls as they were, takes no budget, and the figures it     *)
(* reports satisfy used + remaining = cap with remaining >= 0:             *)
(* calls_this_minute + remaining = calls_per_minute, and                   *)
(* daily_calls_used + daily_calls_remaining = 500.                         *)
(***************************************************************************)
StatsOps == {"fh_get_stats", "av_get_stats", "can_make_request"}

StatsCallStep == seq_calls' = seq_calls + 1 /\ seq_ret'.op \in StatsOps

NoQuotaTaken ==
    /\ fh_granted' = fh_granted
    /\ av_granted' = av_granted
    /\ total_calls' = total_calls
    /\ minute_tokens' >= minute_tokens
    /\ daily_calls' <= daily_calls

FiguresAddUp(r) ==
    IF r.op = "fh_get_stats"
      THEN /\ r.val.calls_this_minute + r.val.remaining = FhCap
           /\ r.val.remaining >= 0
      ELSE IF r.op = "av_get_stats"
             THEN /\ r.val.daily_calls_used + r.val.daily_calls_remaining = DailyCap
                  /\ r.val.daily_calls_remaining >= 0
             ELSE TRUE

C30_StatsConsumeNoQuota ==
    [][StatsCallStep => NoQuotaTaken /\ FiguresAddUp(seq_ret')]_vars

(***************************************************************************)
(* C31: every upstream HTTP call of a provider service comes after exactly *)
(* one granted limiter call of the same request.  So the upstream calls    *)
(* made through a service never outnumber the grants of its limiter, no    *)
(* request calls the limiter twice, and the statements of a request that   *)
(* follow its limiter call (the upstream call, the stale lookup of a       *)
(* failed call, the cache writes) give no quota back.                      *)
(***************************************************************************)
\* the limiter calls started so far
LimiterCallsStarted == IF rq_subject = "finnhub" THEN fh_started ELSE av_started

\* the budgets and the grant records of both limiters
QuotaState ==
    <<call_timestamps, total_calls, blocked_calls, fh_granted,
      minute_tokens, daily_calls, last_minute_reset, last_day_reset>>

\* thread t executes a statement of get_quote that follows its limiter call
AfterLimiterStep(t) ==
    /\ rq_pc[t] \in {"upstream", "stale", "write_fresh", "write_stale"}
    /\ rq_pc'[t] # rq_pc[t]

C32_FreshEntryHasStaleEntry ==
    RqKey \in DOMAIN store => StaleKey(RqKey) \in DOMAIN store

(***************************************************************************)
(* C33: when concurrent get_quote requests for one symbol have each        *)
(* fetched a quote from upstream and all of them have completed, the fresh *)
(* entry and the stale entry of the symbol hold the same quote: the stale  *)
(* copy is not older than the fresh copy.                                  *)
(***************************************************************************)
\* the quotes a fetch can have built
FetchedQuotes == {RqQuote(t) : t \in 0..MaxNow}

\* one request per thread was made, each was granted, called upstream and
\* returned the quote it built, and all have returned
AllFetchedAndCompleted ==
    /\ rq_started = Cardinality(RqThreadIds)
    /\ rq_http = rq_started
    /\ \A t \in RqThreadIds :
         /\ rq_pc[t] = "idle"
         /\ rq_granted[t]
         /\ rq_res[t].val \in FetchedQuotes
    /\ \A t, u \in RqThreadIds : t # u => rq_res[t].val # rq_res[u].val

C33_FreshAndStaleAgreeAfterFetches ==
    AllFetchedAndCompleted =>
        /\ RqKey \in DOMAIN store
        /\ StaleKey(RqKey) \in DOMAIN store
        /\ store[RqKey].data = store[StaleKey(RqKey)].data

(***************************************************************************)
(* C34: staleness is bounded.  A quote returned by get_quote was fetched   *)
(* from the provider no longer ago than the stale TTL (10 h for Alpha      *)
(* Vantage, 40 h for Finnhub), and a quote returned without stale = true   *)
(* was fetched no longer ago than the fresh TTL (1 h for Alpha Vantage,    *)
(* 2 h for Finnhub).                                                       *)
(***************************************************************************)
\* the values the clock can have after at most n steps
RECURSIVE ClockAfter(_)
ClockAfter(n) ==
    IF n = 0 THEN {0}
    ELSE LET S == ClockAfter(n - 1) IN S \cup {t + s : t \in S, s \in AgeSteps}

\* the time a quote was built from the provider's answer: its 'updated_at'
FetchedAt(v) ==
    CHOOSE t \in ClockAfter(MaxAgeTicks) :
        \E i \in 1..(Len(v.items) - 1) :
            i % 2 = 1 /\ v.items[i] = "updated_at" /\ v.items[i + 1] = ToString(t)

QuoteFreshTtl == IF svc_subject = "finnhub" THEN FhQuoteTtl ELSE AvQuoteTtl

QuoteStaleTtl ==
    IF svc_subject = "finnhub" THEN FhStaleTtl(FhQuoteTtl) ELSE AvStaleTtl(AvQuoteTtl)

C34_StalenessBounded ==
    [][\A sym \in Symbols :
         QuoteCall(sym) /\ svc_ret'.val.kind = "dict" =>
             LET age == now' - FetchedAt(svc_ret'.val) IN
               /\ age <= QuoteStaleTtl
               /\ ~HasStale(svc_ret'.val) => age <= QuoteFreshTtl
      ]_vars

(***************************************************************************)
(* C35: a get_quote request that ends in a limiter denial, in a provider   *)
(* failure or in an empty provider answer leaves the cache as it was: it   *)
(* creates, overwrites and deletes no key and changes no expiry, whether   *)
(* it returns the stale copy or None.                                      *)
(***************************************************************************)
\* the request found no usable fresh entry (it did not return at "if cached")
NotServedFromFresh(sym) ==
    ~CacheHit(CacheGet(store, client_ok, store_up, QuoteKey(sym)).val)

\* the request ended in a denial, a failure or an answer without a quote
EndedWithoutQuote(sym) ==
    /\ QuoteCall(sym)
    /\ NotServedFromFresh(sym)
    /\ \/ ~svc_ret'.granted
       \/ svc_ret'.http /\ svc_ret'.upstream # "ok"

C35_UnsuccessfulRequestLeavesCache ==
    [][\A sym \in Symbols :
         EndedWithoutQuote(sym) => /\ store' = store
                                   /\ svc_ret'.replaced = {}
                                   /\ svc_ret'.val = PyNone \/ svc_ret'.val.kind = "dict"
      ]_vars

\* a Finnhub request was granted, its upstream call failed, and it returned
\* the stale copy: both the copy and the cache are as they were
C35_Witness ==
    /\ svc_subject = "finnhub"
    /\ svc_ret.op = "get_quote"
    /\ svc_ret.granted
    /\ svc_ret.caught
    /\ HasStale(svc_ret.val)
    /\ \E sym \in Symbols :
         /\ QuoteKey(sym) \notin DOMAIN store
         /\ StalePresent(sym)
         /\ ~HasStale(StaleCopy(sym))

\* an Alpha Vantage request was denied and found no stale copy
C35_WitnessDeniedNone ==
    /\ svc_subject = "alpha_vantage"
    /\ svc_ret.op = "get_quote"
    /\ ~svc_ret.granted
    /\ svc_ret.val = PyNone
    /\ minute_tokens = 0
    /\ store = <<>>

(***************************************************************************)
(* C36: AlphaVantageRateLimiter refills minute_tokens to the cap, and      *)
(* records the time of the access as the new reset time, only on an access *)
(* made more than 60 seconds after the last reset; an access made 60       *)
(* seconds or less after the last reset changes neither minute_tokens      *)
(* (beyond the token it consumes) nor the reset time.                      *)
(***************************************************************************)
\* a call of acquire, can_make_request or get_stats on the Alpha Vantage limiter
AvAccessStep == seq_subject = "alpha_vantage" /\ seq_calls' = seq_calls + 1

\* the tokens this access consumed
TokenConsumed == IF seq_ret'.op = "acquire" /\ seq_ret'.val THEN 1 ELSE 0

\* the minute refill happened in this step, and nothing else changed the budget
RefilledNow ==
    /\ minute_tokens' = MinuteCap - TokenConsumed
    /\ last_minute_reset' = now

\* no refill in this step
NotRefilled ==
    /\ minute_tokens' = minute_tokens - TokenConsumed
    /\ last_minute_reset' = last_minute_reset

LazyOnly == ~AvAccessStep => UNCHANGED <<minute_tokens, last_minute_reset>>

C36_RefillOnlyAfterSixtySeconds ==
    [][/\ LazyOnly
       /\ AvAccessStep =>
            IF now - last_minute_reset > MinuteWindow THEN RefilledNow ELSE NotRefilled
      ]_vars

\* C36 as the code has it: the refill happens on an access made 60 seconds
\* or more after the last reset; an access made less than 60 seconds after
\* it changes neither minute_tokens (beyond consumption) nor the reset time.
C36_RefillFromSixtySeconds ==
    [][/\ LazyOnly
       /\ AvAccessStep =>
            IF now - last_minute_reset >= MinuteWindow THEN RefilledNow ELSE NotRefilled
      ]_vars

\* an acquire made exactly 60 seconds after the last reset, with the tokens
\* spent before: it was granted out of a refilled budget
C36_Witness ==
    /\ seq_subject = "alpha_vantage"
    /\ seq_ret.op = "acquire"
    /\ seq_ret.val
    /\ now = MinuteWindow
    /\ last_minute_reset = MinuteWindow
    /\ minute_tokens = MinuteCap - 1
    /\ Len(av_granted) = MinuteCap + 1

\* an access made 30 seconds after the last reset: no refill
C36_WitnessNoRefill ==
    /\ seq_subject = "alpha_vantage"
    /\ seq_ret.op = "acquire"
    /\ ~seq_ret.val
    /\ now = TickStep
    /\ last_minute_reset = 0
    /\ minute_tokens = 0

(***************************************************************************)
(* C37: the limiters' reset is lazy and idempotent.  The state of a        *)
(* limiter changes only inside a call on that limiter (no timer runs in    *)
(* the background), and doing the reset step of AlphaVantageRateLimiter or *)
(* the eviction step of FinnhubRateLimiter twice at one clock value leaves *)
(* the state it leaves when done once.                                     *)
(***************************************************************************)
\* a call on either limiter
LimiterCallStep == seq_calls' = seq_calls + 1

\* the clock values and days a next access can see
AccessTimes == {now + d : d \in {0, TickStep, MinuteWindow, 2 * MinuteWindow}}
AccessDays == {today, today + 1}

ResetIdempotent ==
    /\ \A t \in AccessTimes, d \in AccessDays :
         LET once == AvResetIfNeeded(AvState, t, d)
         IN AvResetIfNeeded(once, t, d) = once
    /\ \A t \in AccessTimes :
         LET once == FhEvict(call_timestamps, t - window_size)
         IN FhEvict(once, t - window_size) = once

C37_ResetLazyAndIdempotent ==
    /\ []ResetIdempotent
    /\ [][~LimiterCallStep => QuotaState' = QuotaState]_vars

\* the five tokens were spent at time 0 and a query made at time 60 has
\* refilled them: the call, not the clock, did it
C37_Witness ==
    /\ seq_subject = "alpha_vantage"
    /\ seq_ret.op \in {"can_make_request", "av_get_stats"}
    /\ Len(av_granted) = MinuteCap
    /\ now = MinuteWindow
    /\ last_minute_reset = MinuteWindow
    /\ minute_tokens = MinuteCap

\* the clock is past the window of two granted Finnhub calls and get_stats
\* has evicted both
C37_WitnessEviction ==
    /\ seq_subject = "finnhub"
    /\ seq_ret.op = "fh_get_stats"
    /\ Len(fh_granted) = FhCap
    /\ call_timestamps = <<>>
    /\ now > window_size

(***************************************************************************)
(* C38: FinnhubService.get_candles is cache-first.  After a call           *)
(* get_candles(symbol) with the default range has fetched and cached a     *)
(* non-empty series, every later get_candles(symbol) call with the default *)
(* range made before the candle TTL (4 h) is over returns the cached       *)
(* series, takes no limiter quota and makes no upstream call.              *)
(***************************************************************************)
\* the values the clock of a service run can have after at most n steps
RECURSIVE SvcClockAfter(_)
SvcClockAfter(n) ==
    IF n = 0 THEN {0}
    ELSE LET S == SvcClockAfter(n - 1) IN S \cup {t + s : t \in S, s \in SvcSteps}

\* the times of the default-range get_candles(sym) calls whose series is
\* still in the cache (Redis has dropped the entries older than the TTL)
CandlesCachedAt(sym) ==
    {t \in SvcClockAfter(MaxSvcTicks) :
        /\ FhCandlesKey(sym, t) \in DOMAIN store
        /\ Truthy(Stored(FhCandlesKey(sym, t)))}

CandlesCall(sym) == SvcCallStep /\ svc_ret'.op = "get_candles" /\ svc_ret'.sym = sym

C38_CandlesServedFromCache ==
    [][\A sym \in Symbols :
         (/\ CandlesCall(sym)
          /\ Usable(client_ok, store_up)
          /\ CandlesCachedAt(sym) # {})
            => /\ \E t \in CandlesCachedAt(sym) :
                    svc_ret'.val = Stored(FhCandlesKey(sym, t))
               /\ ~svc_ret'.granted
               /\ ~svc_ret'.http
               /\ total_calls' = total_calls
               /\ blocked_calls' = blocked_calls
      ]_vars

(***************************************************************************)
(* C39: a function wrapped with the cached(key_prefix, timeout) decorator  *)
(* caches its results: a second call with equal arguments made within      *)
(* timeout of the invocation that produced the result returns the stored   *)
(* result and does not invoke the wrapped function again.                  *)
(***************************************************************************)
DecoCallStep == dc_calls' = dc_calls + 1

\* the wrapped function was invoked with args less than timeout ago
InvokedWithin(args, timeout) ==
    /\ dc_seen[args].at >= 0
    /\ now - dc_seen[args].at < timeout

C39_SecondCallServedFromCache ==
    [][\A args \in DecoArgLists :
         (/\ DecoCallStep
          /\ dc_ret'.args = args
          /\ InvokedWithin(args, DecoTimeout))
            => /\ dc_invoked' = dc_invoked
               /\ dc_ret'.val = dc_seen[args].val
      ]_vars
=============================================================================
